---- MODULE Spec2Model ----
(***************************************************************************)
(* Model of the client-server peer's orchestration layer.                  *)
(*                                                                         *)
(* Part 1: the Connection Manager of src/src/connection/index.ts.          *)
(* connect() and disconnect() are async functions: every `await` is a      *)
(* suspension point at which the other calls in flight may run, so each    *)
(* call is a task with a position (pc) and its local variables, and each   *)
(* action is one synchronous run of code between two suspension points.    *)
(*                                                                         *)
(* Part 2: the Peer of src/unnamed/part_002 (PeerImpl): start(), stop() and *)
(* getEndpoints() over a list of transport configurations.                 *)
(*                                                                         *)
(* Part 3: the discovery procedure of src/src/procedures/index.ts, run by  *)
(* the remote peer over its procedure registry, and watchProcedures.       *)
(*                                                                         *)
(* Part 4: the manifest.generate handler of src/unnamed/part_001 and the   *)
(* server.create handler of src/src/procedures/server.create.ts.           *)
(***************************************************************************)
EXTENDS Integers, Sequences, FiniteSets, TLC

VARIABLES
    now,          \* the value Date.now() returns
    connections,  \* the module-level Map<string, Connection>: id -> object reference
    clients,      \* the objects createClient()/connect() allocate, by reference
    tasks,        \* the calls of the connection manager's API in flight or returned
    probe,        \* the options of the connect() call followed on its own
    peer,         \* the PeerImpl object: transports, endpoints, started
    server,       \* the peer's ProcedureServer: the transports attached to it
    endpointObjects, \* the PeerEndpoint objects on the heap, by reference
    peerTasks,    \* the calls of start() and stop() in flight or returned
    held,         \* the array a caller got from getEndpoints()
    registry,     \* the remote peer's PROCEDURE_REGISTRY, in registration order
    announced,    \* the last response of the _discovery.announce handler
    serving,      \* the registry option the remote peer was created with
    watchers,     \* the callbacks given to watchProcedures, and their calls
    generated,    \* the last call of manifest.generate: input, catalog read, outcome
    files,        \* the files in the output directory
    activePeers,  \* the module-level Map<string, Peer> of server.create
    creating      \* the call of server.create in flight or returned

connVars == <<now, connections, clients, tasks, probe>>
peerVars == <<peer, server, endpointObjects, peerTasks, held>>
discoveryVars == <<registry, announced, serving, watchers>>
manifestVars == <<generated, files>>
createVars == <<activePeers, creating>>

vars == <<connVars, peerVars, discoveryVars, manifestVars, createVars>>

\* ------------------------------------------------------------------ bounds

NumTasks == 2        \* API calls that can be in flight at once
MaxClients == 2      \* Client objects created in one behaviour
MaxTime == 1         \* last value of the millisecond clock
NumSuffixes == 1     \* distinct random suffixes Math.random() yields
NumCallers == 2      \* calls of the peer's start()/stop() that can be in flight at once
MaxTransports == 2   \* longest transport list a peer is configured with
MaxObjects == 3      \* PeerEndpoint objects alive at once
MaxAdapters == 2     \* transports attached to the procedure server at once
MaxRegistry == 7     \* longest procedure registry
NumWatchers == 2     \* callbacks passed to watchProcedures
MaxCalls == 2        \* calls of one callback that are followed

Tasks == 1..NumTasks

\* ------------------------------------------------------------ value spaces

Undefined == "undefined"

\* Results of Math.random().toString(36).slice(2, 8), numbered.
Suffixes == 1..NumSuffixes

\* `conn-${Date.now()}-${suffix}` is kept as the pair it is built from.
Ids == (0..MaxTime) \X Suffixes
NoId == <<-1, 0>>

\* Addresses are strings; kept as sequences of characters so that
\* String.prototype.startsWith is computed, not assumed.
Host == <<"h">>
Sep == <<":", "/", "/">>
Addresses ==
    { <<"w","s">> \o Sep \o Host,
      <<"w","s","s">> \o Sep \o Host,
      <<"h","t","t","p">> \o Sep \o Host,
      <<"h","t","t","p","s">> \o Sep \o Host,
      <<"l","o","c","a","l">> \o Sep \o Host,
      <<"f","t","p">> \o Sep \o Host,
      <<"W","S">> \o Sep \o Host,
      <<"x","w","s">> \o Sep \o Host,
      <<"w","s",":","/">> \o Host,
      <<"w","s">>,
      Host,
      << >> }

\* The addresses connect() is called with when calls interleave: one per
\* branch of detectTransport.
ConnectAddresses ==
    { <<"w","s">> \o Sep \o Host, <<"l","o","c","a","l">> \o Sep \o Host, Host }

\* options.transport: absent, one of the TransportType members, or (the
\* procedure's input schema is a pass-through) any other string.
TransportOpts == {Undefined, "http", "websocket", "local", "bogus"}

\* What the remote's _discovery.announce can answer with.
Catalogs == { <<"echo.ping">> }

\* Outcome of the client.call made by discoverProcedures: a response, a
\* failure of the call over an open channel, or a channel that cannot be
\* opened (unreachable or refusing address).
Replies ==
    { [kind |-> "ok", peerId |-> "peer-A", procedures |-> p] : p \in Catalogs }
    \cup { [kind |-> "failed", peerId |-> Undefined, procedures |-> << >>],
           [kind |-> "unreachable", peerId |-> Undefined, procedures |-> << >>] }

\* An optional input field: absent, or present with a value.
None == << >>
Some(value) == <<value>>

\* options.timeout: absent or a number of milliseconds.
Timeouts == {None, Some(5000)}

\* Outcome of client.close().
CloseOutcomes == {"ok", "throw"}

\* ---------------------------------------------------------------- helpers

\* String.prototype.startsWith
startsWith(s, p) == Len(s) >= Len(p) /\ SubSeq(s, 1, Len(p)) = p

\* Map.prototype.set / delete / get / keys on the registry
MapSet(m, k, v) == [x \in (DOMAIN m) \cup {k} |-> IF x = k THEN v ELSE m[x]]
MapDelete(m, k) == [x \in (DOMAIN m) \ {k} |-> m[x]]

\* Fault: detectTransport without the wss:// test.
detectTransport_noWss(address) ==
    IF startsWith(address, <<"w","s">> \o Sep)
    THEN "websocket"
    ELSE IF startsWith(address, <<"h","t","t","p">> \o Sep)
            \/ startsWith(address, <<"h","t","t","p","s">> \o Sep)
    THEN "http"
    ELSE IF startsWith(address, <<"l","o","c","a","l">> \o Sep)
    THEN "local"
    ELSE "http"

detectTransport(address) ==
    IF startsWith(address, <<"w","s">> \o Sep)
       \/ startsWith(address, <<"w","s","s">> \o Sep)
    THEN "websocket"
    ELSE IF startsWith(address, <<"h","t","t","p">> \o Sep)
            \/ startsWith(address, <<"h","t","t","p","s">> \o Sep)
    THEN "http"
    ELSE IF startsWith(address, <<"l","o","c","a","l">> \o Sep)
    THEN "local"
    ELSE "http"

\* options.transport ?? detectTransport(options.address)
ResolveTransport(transportOpt, address) ==
    IF transportOpt # Undefined THEN transportOpt ELSE detectTransport(address)

\* Fault: createClient building a client for 'local' instead of throwing.
createClient_localAsHttp(transport) ==
    CASE transport = "http" -> "client"
      [] transport = "websocket" -> "client"
      [] transport = "local" -> "client"
      [] OTHER -> "threwUnknown"

\* createClient: a Client for http and websocket, a throw for the rest.
createClient(transport) ==
    CASE transport = "http" -> "client"
      [] transport = "websocket" -> "client"
      [] transport = "local" -> "threwLocal"
      [] OTHER -> "threwUnknown"

\* The options createClient gives the transport it constructs: the http
\* transport gets a timeout only when connect() was given one; the websocket
\* transport gets connectionTimeout, 10000 unless connect() was given one.
transportOptions(transport, timeout) ==
    IF transport = "websocket"
    THEN [ timeout |-> None,
           connectionTimeout |-> IF timeout # None THEN timeout ELSE Some(10000) ]
    ELSE [ timeout |-> timeout, connectionTimeout |-> None ]

\* The timer that bounds a call made through a client, if it has one: the
\* timeout its transport was constructed with.
callTimeout(options) ==
    IF options.timeout # None THEN options.timeout ELSE options.connectionTimeout

\* Fault: discoverProcedures without its try/catch.
discoverProcedures_noCatch(reply) ==
    IF reply.kind = "ok"
    THEN [threw |-> FALSE, peerId |-> reply.peerId, procedures |-> reply.procedures]
    ELSE [threw |-> TRUE, peerId |-> Undefined, procedures |-> << >>]

\* discoverProcedures: the response's peerId and procedures, or, from the
\* catch block, peerId "unknown" and no procedures.  It never throws.
discoverProcedures(reply) ==
    IF reply.kind = "ok"
    THEN [threw |-> FALSE, peerId |-> reply.peerId, procedures |-> reply.procedures]
    ELSE [threw |-> FALSE, peerId |-> "unknown", procedures |-> << >>]

\* A Client as createClient leaves it, with the discovery call issued on it.
\* discovery and closed record what has happened on its channel; built says
\* whether connect() has made the Connection object around it.
NewClient(transport, timeout) ==
    [ transport |-> transport,
      options |-> transportOptions(transport, timeout),
      discovery |-> "pending",
      closed |-> FALSE,
      built |-> FALSE,
      id |-> NoId,
      remotePeerId |-> Undefined,
      state |-> "none",
      remoteProcedures |-> << >> ]

\* The Connection object literal of connect().
NewConnection(c, connectionId, disc) ==
    [ c EXCEPT !.built = TRUE,
               !.id = connectionId,
               !.remotePeerId = disc.peerId,
               !.state = "connected",
               !.remoteProcedures = disc.procedures ]

\* A call: the operation, where it stands, the id it was given or minted,
\* the object it works on, and what it returned or threw.
IdleTask ==
    [ op |-> "none", pc |-> "idle", id |-> NoId, ref |-> 0,
      transport |-> "none", result |-> "none" ]

\* A call that has returned or thrown: its frame is gone, the caller holds
\* what it passed and what came back.
Returned(call, result) == [call EXCEPT !.pc = "done", !.ref = 0, !.result = result]

CanCall(t) == tasks[t].pc \in {"idle", "done"}

\* getConnection(connectionId); 0 stands for undefined
getConnection(connectionId) ==
    IF connectionId \in DOMAIN connections THEN connections[connectionId] ELSE 0

\* getConnectionIds()
getConnectionIds == DOMAIN connections

\* ------------------------------------------------------------ peer values

PeerCallers == 1..NumCallers

\* TransportTypeSchema
TransportTypes == {"http", "websocket", "local"}

\* The type tags a transport configuration arrives with: PeerOptions is not
\* validated at run time, so a tag outside TransportType gets through.
ConfigTypes == TransportTypes \cup {"bogus"}

\* options.transports: each configuration is kept as its type tag, the other
\* fields at their defaults (ports 3000 and 3001, host "0.0.0.0", "/api", "/ws").
TransportLists == UNION { [1..n -> ConfigTypes] : n \in 0..MaxTransports }

\* host === "0.0.0.0" ? "localhost" : host
renderHost(host) == IF host = "0.0.0.0" THEN "localhost" ELSE host

\* The PeerEndpoint literals the three start paths push.
LocalEndpoint == [type |-> "local", address |-> "local://in-process"]
HttpEndpoint ==
    [type |-> "http",
     address |-> IF renderHost("0.0.0.0") = "localhost"
                 THEN "http://localhost:3000/api" ELSE "http://0.0.0.0:3000/api"]
WebSocketEndpoint ==
    [type |-> "websocket",
     address |-> IF renderHost("0.0.0.0") = "localhost"
                 THEN "ws://localhost:3001/ws" ELSE "ws://0.0.0.0:3001/ws"]

\* A PeerImpl before createPeer() has made one, and as its field
\* initialisers and constructor leave it.
NoPeer == [created |-> FALSE, transports |-> << >>, endpoints |-> << >>, started |-> FALSE]
NewPeer(transports) ==
    [created |-> TRUE, transports |-> transports, endpoints |-> << >>, started |-> FALSE]

\* Heap slots of PeerEndpoint objects and of the server's transports.
ObjectRefs == 1..MaxObjects
AdapterIds == 1..MaxAdapters
Free == [type |-> "free", address |-> "free"]
NoAdapter == [type |-> "none", state |-> "none"]

\* Outcome of binding: httpTransport.start() resolves or rejects; the
\* listen() of the WebSocket's HTTP server calls back, or emits 'error', which
\* nothing listens to, so that the promise around it never settles.
BindOutcomes(type) == IF type = "http" THEN {"ok", "throw"} ELSE {"ok", "error"}

\* A call on the peer: the operation, where it stands, the transport it is
\* at, the adapter it is binding, the return it left through and its result.
IdlePeerTask ==
    [ op |-> "none", pc |-> "idle", i |-> 0, adapter |-> 0, ran |-> "none",
      result |-> "none" ]

PeerReturned(call, ran, result) ==
    [call EXCEPT !.pc = "done", !.adapter = 0, !.ran = ran, !.result = result]

CanCallPeer(c) == peer.created /\ peerTasks[c].pc \in {"idle", "done"}

\* getEndpoints(): a new array holding the same PeerEndpoint objects.
getEndpoints == [k \in DOMAIN peer.endpoints |-> peer.endpoints[k]]

\* What a reader of an array of endpoints sees: the objects' fields.
Deref(array) == [k \in DOMAIN array |-> endpointObjects[array[k]]]

\* The objects some array still refers to; the others are garbage.
Reachable(endpoints, snapshot) ==
    { endpoints[k] : k \in DOMAIN endpoints } \cup { snapshot[k] : k \in DOMAIN snapshot }
Collect(objects, live) == [r \in ObjectRefs |-> IF r \in live THEN objects[r] ELSE Free]

\* ------------------------------------------------------- discovery values

DiscoveryPath == <<"_discovery", "announce">>

\* A registered procedure: its path, its metadata (meta says whether it
\* has a metadata object at all; a metadata object without the internal flag
\* reads as internal FALSE, one without a description as Undefined) and
\* whether it has a handler.
discoveryAnnounceProcedure ==
    [ path |-> DiscoveryPath, meta |-> TRUE,
      description |-> "Exchange procedure manifests for discovery", internal |-> TRUE,
      handler |-> TRUE ]
serverCreateProcedure ==
    [ path |-> <<"server", "create">>, meta |-> TRUE,
      description |-> "Create a transport-agnostic peer that exposes procedures",
      internal |-> FALSE,
      handler |-> TRUE ]
serverConnectProcedure ==
    [ path |-> <<"server", "connect">>, meta |-> TRUE,
      description |-> "Connect to a remote peer for bidirectional RPC",
      internal |-> FALSE,
      handler |-> TRUE ]
serverDisconnectProcedure ==
    [ path |-> <<"server", "disconnect">>, meta |-> TRUE,
      description |-> "Disconnect from a remote peer", internal |-> FALSE,
      handler |-> TRUE ]
manifestGenerateProcedure ==
    [ path |-> <<"manifest", "generate">>, meta |-> TRUE,
      description |-> "Generate procedure manifests in various formats",
      internal |-> FALSE,
      handler |-> TRUE ]

\* The procedures this package registers when it is loaded.
procedures ==
    << serverCreateProcedure, serverConnectProcedure, serverDisconnectProcedure,
       manifestGenerateProcedure, discoveryAnnounceProcedure >>

\* Procedures other packages register on the same registry.
UserProcedures ==
    { [ path |-> <<"echo", "ping">>, meta |-> TRUE, description |-> "Ping",
        internal |-> FALSE,
      handler |-> TRUE ],
      [ path |-> <<"admin", "reset">>, meta |-> TRUE, description |-> Undefined,
        internal |-> TRUE,
      handler |-> TRUE ],
      [ path |-> <<"fs", "read">>, meta |-> FALSE, description |-> Undefined,
        internal |-> FALSE,
      handler |-> TRUE ] }

NoAnnounce == [type |-> "none", peerId |-> <<"peer", -1>>, procedures |-> << >>]

\* createPeer without a registry option: the peer's server is given the
\* ambient PROCEDURE_REGISTRY.
AmbientRegistry == [own |-> FALSE, catalog |-> << >>]

\* ---------------------------------------------------------- watcher values

Watchers == 1..NumWatchers

\* A callback nobody has passed to watchProcedures yet, and the calls made
\* of it.
NoWatcher ==
    [state |-> "none", onRegister |-> FALSE, onUnregister |-> FALSE, calls |-> << >>]

\* --------------------------------------------------------- manifest values

NoGenerate ==
    [ called |-> FALSE,
      input |-> [namespace |-> None, formats |-> None, outputDir |-> Undefined],
      allProcedures |-> << >>, repeats |-> FALSE, mkdir |-> "none", threw |-> FALSE, error |-> "none",
      result |-> << >> ]

\* ---------------------------------------------------- server.create values

NoCreate ==
    [ pc |-> "idle", input |-> [transports |-> None, autoRegister |-> Undefined],
      autoRegister |-> "true", serverId |-> <<"peer", -1, 0>>, threw |-> FALSE,
      result |-> << >> ]

\* ------------------------------------------------------------------- Init

NoProbe == [address |-> << >>, transport |-> Undefined]

Init ==
    /\ now = 0
    /\ connections = << >>
    /\ clients = << >>
    /\ tasks = [t \in Tasks |-> IdleTask]
    /\ probe = NoProbe
    /\ peer = NoPeer
    /\ server = [a \in AdapterIds |-> NoAdapter]
    /\ endpointObjects = [r \in ObjectRefs |-> Free]
    /\ peerTasks = [c \in PeerCallers |-> IdlePeerTask]
    /\ held = << >>
    /\ registry = procedures
    /\ announced = NoAnnounce
    /\ serving = AmbientRegistry
    /\ watchers = [w \in Watchers |-> NoWatcher]
    /\ generated = NoGenerate
    /\ files = {}
    /\ activePeers = {}
    /\ creating = NoCreate

\* ---------------------------------------------------------------- actions
\* An awaited promise settling and the continuation it resumes are one
\* action when the code that settled it changed nothing another call reads
\* (the discovery call, client.close()); where it did (connection.disconnect()
\* deletes before disconnect() resumes) the continuation is its own action.

\* The clock behind Date.now() advances.
Tick ==
    /\ now < MaxTime
    /\ now' = now + 1
    /\ UNCHANGED <<connections, clients, tasks, probe, peerVars, discoveryVars, manifestVars, createVars>>

\* Fault: connect() storing a 'connecting' entry before it awaits discovery.
connect_registerFirst(t, address, transportOpt, timeout, suffix) ==
    /\ CanCall(t)
    /\ LET connectionId == <<now, suffix>>
           transport == ResolveTransport(transportOpt, address)
           made == createClient(transport)
           call == [ IdleTask EXCEPT !.op = "connect", !.id = connectionId,
                                     !.transport = transport ]
       IN IF made = "client"
          THEN /\ Len(clients) < MaxClients
               /\ clients' = Append(clients,
                      [ NewClient(transport, timeout) EXCEPT !.id = connectionId,
                                                    !.state = "connecting" ])
               /\ connections' = MapSet(connections, connectionId, Len(clients) + 1)
               /\ tasks' = [tasks EXCEPT ![t] =
                      [call EXCEPT !.pc = "awaitDiscovery", !.ref = Len(clients) + 1]]
          ELSE /\ tasks' = [tasks EXCEPT ![t] = Returned(call, made)]
               /\ UNCHANGED <<clients, connections>>
    /\ UNCHANGED now

\* connect(), up to its first suspension: mint the id, resolve the transport,
\* create the client (or throw), and issue the discovery call.
connect(t, address, transportOpt, timeout, suffix) ==
    /\ CanCall(t)
    /\ LET connectionId == <<now, suffix>>
           transport == ResolveTransport(transportOpt, address)
           made == createClient(transport)
           call == [ IdleTask EXCEPT !.op = "connect", !.id = connectionId,
                                     !.transport = transport ]
       IN IF made = "client"
          THEN /\ Len(clients) < MaxClients
               /\ clients' = Append(clients, NewClient(transport, timeout))
               /\ tasks' = [tasks EXCEPT ![t] =
                      [call EXCEPT !.pc = "awaitDiscovery", !.ref = Len(clients) + 1]]
          ELSE /\ tasks' = [tasks EXCEPT ![t] = Returned(call, made)]
               /\ UNCHANGED clients
    /\ UNCHANGED <<now, connections>>

\* connect() called by one of the interleaved callers, without a timeout.
ConnectCall(t, address, transportOpt, suffix) ==
    /\ connect(t, address, transportOpt, None, suffix)
    /\ UNCHANGED <<probe, peerVars, discoveryVars, manifestVars, createVars>>

\* The discovery call settles, discoverProcedures returns, and connect()
\* resumes: build the Connection, store it in the registry and return it.
ConnectFinish(t, reply) ==
    /\ tasks[t].op = "connect"
    /\ tasks[t].pc = "awaitDiscovery"
    /\ LET disc == discoverProcedures(reply)
           ref == tasks[t].ref
           heard == [clients[ref] EXCEPT !.discovery = reply.kind]
       IN IF disc.threw
          THEN /\ clients' = [clients EXCEPT ![ref] = heard]
               /\ tasks' = [tasks EXCEPT ![t] = Returned(@, "threwDiscovery")]
               /\ UNCHANGED connections
          ELSE /\ clients' = [clients EXCEPT ![ref] =
                      NewConnection(heard, tasks[t].id, disc)]
               /\ connections' = MapSet(connections, tasks[t].id, ref)
               /\ tasks' = [tasks EXCEPT ![t] = Returned(@, "conn")]
    /\ UNCHANGED <<now, probe, peerVars, discoveryVars, manifestVars, createVars>>

\* disconnect(connectionId), up to its first suspension: false for an id the
\* registry does not hold, else connection.disconnect() is entered and
\* client.close() is called.
DisconnectCall(t, connectionId) ==
    /\ CanCall(t)
    /\ LET call == [IdleTask EXCEPT !.op = "disconnect", !.id = connectionId]
           ref == getConnection(connectionId)
       IN tasks' = [tasks EXCEPT ![t] =
              IF ref = 0
              THEN Returned(call, "false")
              ELSE [call EXCEPT !.pc = "awaitClose", !.ref = ref]]
    /\ UNCHANGED <<now, connections, clients, probe, peerVars, discoveryVars, manifestVars, createVars>>

\* connection.disconnect() called on a Connection that connect() returned.
ConnectionDisconnectCall(t, ref) ==
    /\ CanCall(t)
    /\ ref \in 1..Len(clients)
    /\ clients[ref].built
    /\ tasks' = [tasks EXCEPT ![t] =
           [IdleTask EXCEPT !.op = "connection.disconnect", !.id = clients[ref].id,
                            !.pc = "awaitClose", !.ref = ref]]
    /\ UNCHANGED <<now, connections, clients, probe, peerVars, discoveryVars, manifestVars, createVars>>

\* Fault: connection.disconnect() deleting its entry whether or not
\* client.close() succeeded, and swallowing the failure.
ConnectionDisconnectFinish_swallow(t, outcome) ==
    /\ tasks[t].pc = "awaitClose"
    /\ LET ref == tasks[t].ref
       IN /\ clients' = IF outcome = "ok"
                        THEN [clients EXCEPT ![ref].closed = TRUE]
                        ELSE clients
          /\ connections' = MapDelete(connections, clients[ref].id)
          /\ tasks' = [tasks EXCEPT ![t] =
                 IF tasks[t].op = "disconnect"
                 THEN [@ EXCEPT !.pc = "deleted"]
                 ELSE Returned(@, "void")]
    /\ UNCHANGED <<now, probe, peerVars, discoveryVars, manifestVars, createVars>>

\* client.close() settles and connection.disconnect() resumes: on success the
\* connection's own id is deleted from the registry; a rejection passes
\* through connection.disconnect() (and disconnect()) to the caller.
ConnectionDisconnectFinish(t, outcome) ==
    /\ tasks[t].pc = "awaitClose"
    /\ LET ref == tasks[t].ref
       IN IF outcome = "ok"
          THEN /\ clients' = [clients EXCEPT ![ref].closed = TRUE]
               /\ connections' = MapDelete(connections, clients[ref].id)
               /\ tasks' = [tasks EXCEPT ![t] =
                      IF tasks[t].op = "disconnect"
                      THEN [@ EXCEPT !.pc = "deleted"]
                      ELSE Returned(@, "void")]
          ELSE /\ tasks' = [tasks EXCEPT ![t] = Returned(@, "threwClose")]
               /\ UNCHANGED <<clients, connections>>
    /\ UNCHANGED <<now, probe, peerVars, discoveryVars, manifestVars, createVars>>

\* disconnect() after `await connection.disconnect()`: return true.
DisconnectReturn(t) ==
    /\ tasks[t].op = "disconnect"
    /\ tasks[t].pc = "deleted"
    /\ tasks' = [tasks EXCEPT ![t] = Returned(@, "true")]
    /\ UNCHANGED <<now, connections, clients, probe, peerVars, discoveryVars, manifestVars, createVars>>

Next ==
    \/ Tick
    \/ \E t \in Tasks, a \in ConnectAddresses, o \in TransportOpts, s \in Suffixes :
          ConnectCall(t, a, o, s)
    \/ \E t \in Tasks, r \in Replies : ConnectFinish(t, r)
    \/ \E t \in Tasks, i \in Ids : DisconnectCall(t, i)
    \/ \E t \in Tasks, c \in 1..MaxClients : ConnectionDisconnectCall(t, c)
    \/ \E t \in Tasks, o \in CloseOutcomes : ConnectionDisconnectFinish(t, o)
    \/ \E t \in Tasks : DisconnectReturn(t)

Spec == Init /\ [][Next]_vars

\* ------------------------------------------- one caller, every address
\* A single caller making one connect() after the other, drawing from every
\* address and every transport option; probe keeps the options of its
\* latest connect().

ProbeTask == CHOOSE t \in Tasks : \A u \in Tasks : t <= u

ProbeConnect(address, transportOpt, suffix) ==
    /\ connect(ProbeTask, address, transportOpt, None, suffix)
    /\ probe' = [address |-> address, transport |-> transportOpt]
    /\ UNCHANGED <<peerVars, discoveryVars, manifestVars, createVars>>

NextTransport ==
    \/ \E a \in Addresses, o \in TransportOpts, s \in Suffixes : ProbeConnect(a, o, s)
    \/ \E r \in Replies : ConnectFinish(ProbeTask, r)

SpecTransport == Init /\ [][NextTransport]_vars

\* ------------------------------------------- a remote that never answers
\* A single caller making one connect() after the other, with and without a
\* timeout, to a remote that accepts the discovery call and never answers
\* it.  discoverProcedures awaits client.call with no timer of its own, so
\* the call settles only when the timer of the client's transport rejects it.

\* The rejection of a call by the transport's timer.
TimedOut == [kind |-> "timeout", peerId |-> Undefined, procedures |-> << >>]

\* connect() called with or without options.timeout.
TimedConnect(address, transportOpt, timeout, suffix) ==
    /\ connect(ProbeTask, address, transportOpt, timeout, suffix)
    /\ probe' = [address |-> address, transport |-> transportOpt]
    /\ UNCHANGED <<peerVars, discoveryVars, manifestVars, createVars>>

\* The timer of the client's transport rejects the discovery call, the catch
\* block of discoverProcedures takes it, and connect() resumes.
DiscoveryTimeout(t) ==
    /\ tasks[t].op = "connect"
    /\ tasks[t].pc = "awaitDiscovery"
    /\ callTimeout(clients[tasks[t].ref].options) # None
    /\ ConnectFinish(t, TimedOut)

NextSilentRemote ==
    \/ \E a \in Addresses, o \in TransportOpts, m \in Timeouts, s \in Suffixes :
          TimedConnect(a, o, m, s)
    \/ DiscoveryTimeout(ProbeTask)

SpecSilentRemote == Init /\ [][NextSilentRemote]_vars

\* =================================================================== Peer
\* start() and stop() are async: the calls of one peer interleave at their
\* awaits (the dynamic import, the bind, `await this.startTransport(...)`,
\* `await this.server.stop()`).

\* createPeer(options): new PeerImpl(options).
createPeer(transports) ==
    /\ ~peer.created
    /\ peer' = NewPeer(transports)
    /\ UNCHANGED <<server, endpointObjects, peerTasks, held, connVars, discoveryVars, manifestVars, createVars>>

\* The slot a new PeerEndpoint object, or a new server transport, takes.
NewRef ==
    CHOOSE r \in ObjectRefs :
        /\ endpointObjects[r] = Free
        /\ \A q \in ObjectRefs : endpointObjects[q] = Free => r <= q
NewAdapter ==
    CHOOSE a \in AdapterIds :
        /\ server[a] = NoAdapter
        /\ \A b \in AdapterIds : server[b] = NoAdapter => a <= b

\* this.endpoints.push(endpoint)
push(endpoint) ==
    /\ \E r \in ObjectRefs : endpointObjects[r] = Free
    /\ endpointObjects' = [endpointObjects EXCEPT ![NewRef] = endpoint]
    /\ peer' = [peer EXCEPT !.endpoints = Append(@, NewRef)]

\* startTransport(config) for the i-th transport, up to its first suspension:
\* http and websocket wait for their import, local pushes its endpoint, and
\* any other type falls through the switch.
startTransport(c, call, i) ==
    LET type == peer.transports[i]
    IN /\ peerTasks' = [peerTasks EXCEPT ![c] =
              [call EXCEPT !.i = i,
                           !.pc = IF type \in {"http", "websocket"}
                                  THEN "awaitImport" ELSE "awaitTransport"]]
       /\ IF type = "local"
          THEN push(LocalEndpoint)
          ELSE UNCHANGED <<peer, endpointObjects>>

\* start()'s for loop entered at the i-th transport; past the last one
\* this.started = true and start() returns.
startLoop(c, call, i) ==
    IF i > Len(peer.transports)
    THEN /\ peer' = [peer EXCEPT !.started = TRUE]
         /\ peerTasks' = [peerTasks EXCEPT ![c] = PeerReturned(call, "body", "void")]
         /\ UNCHANGED endpointObjects
    ELSE startTransport(c, call, i)

\* Fault: start() without `if (this.started) return`.
start_noGuard(c) ==
    /\ CanCallPeer(c)
    /\ startLoop(c, [IdlePeerTask EXCEPT !.op = "start"], 1)
    /\ UNCHANGED <<server, held, connVars, discoveryVars, manifestVars, createVars>>

\* start(), up to its first suspension.
start(c) ==
    /\ CanCallPeer(c)
    /\ LET call == [IdlePeerTask EXCEPT !.op = "start"]
       IN IF peer.started
          THEN /\ peerTasks' = [peerTasks EXCEPT ![c] = PeerReturned(call, "guard", "void")]
               /\ UNCHANGED <<peer, endpointObjects>>
          ELSE startLoop(c, call, 1)
    /\ UNCHANGED <<server, held, connVars, discoveryVars, manifestVars, createVars>>

\* startHttpTransport / startWebSocketTransport after the import: the server
\* transport is made and attached to the procedure server, and its bind begins.
startNetworkTransport(c, type) ==
    /\ peerTasks[c].op = "start"
    /\ peerTasks[c].pc = "awaitImport"
    /\ peer.transports[peerTasks[c].i] = type
    /\ \E a \in AdapterIds : server[a] = NoAdapter
    /\ server' = [server EXCEPT ![NewAdapter] = [type |-> type, state |-> "binding"]]
    /\ peerTasks' = [peerTasks EXCEPT ![c] =
           [@ EXCEPT !.pc = "awaitBind", !.adapter = NewAdapter]]
    /\ UNCHANGED <<peer, endpointObjects, held, connVars, discoveryVars, manifestVars, createVars>>

startHttpTransport(c) == startNetworkTransport(c, "http")

startWebSocketTransport(c) == startNetworkTransport(c, "websocket")

\* The endpoint startHttpTransport / startWebSocketTransport pushes.
EndpointOf(type) == IF type = "http" THEN HttpEndpoint ELSE WebSocketEndpoint

\* Fault: a failed bind is swallowed and start() goes on to the next
\* transport.
BindFinish_continue(c, outcome) ==
    /\ peerTasks[c].op = "start"
    /\ peerTasks[c].pc = "awaitBind"
    /\ LET a == peerTasks[c].adapter
           type == server[a].type
       IN /\ outcome \in BindOutcomes(type)
          /\ server' = [server EXCEPT ![a].state =
                 IF outcome = "ok" THEN "listening" ELSE "failed"]
          /\ IF outcome = "ok"
             THEN push(EndpointOf(type))
             ELSE UNCHANGED <<peer, endpointObjects>>
          /\ peerTasks' = [peerTasks EXCEPT ![c] =
                 [@ EXCEPT !.pc = "awaitTransport", !.adapter = 0]]
    /\ UNCHANGED <<held, connVars, discoveryVars, manifestVars, createVars>>

\* The bind settles.  Bound: the endpoint is pushed and the start path
\* returns to `await this.startTransport(...)`.  httpTransport.start()
\* rejecting: start() rejects with it.  listen() failing: the promise of
\* startWebSocketTransport stays pending, and start() with it.
BindFinish(c, outcome) ==
    /\ peerTasks[c].op = "start"
    /\ peerTasks[c].pc = "awaitBind"
    /\ LET a == peerTasks[c].adapter
           type == server[a].type
       IN /\ outcome \in BindOutcomes(type)
          /\ IF outcome = "ok"
             THEN /\ server' = [server EXCEPT ![a].state = "listening"]
                  /\ push(EndpointOf(type))
                  /\ peerTasks' = [peerTasks EXCEPT ![c] =
                         [@ EXCEPT !.pc = "awaitTransport", !.adapter = 0]]
             ELSE /\ server' = [server EXCEPT ![a].state = "failed"]
                  /\ peerTasks' = [peerTasks EXCEPT ![c] =
                         IF outcome = "throw"
                         THEN PeerReturned(@, "body", "threw")
                         ELSE [@ EXCEPT !.pc = "pending", !.adapter = 0]]
                  /\ UNCHANGED <<peer, endpointObjects>>
    /\ UNCHANGED <<held, connVars, discoveryVars, manifestVars, createVars>>

\* start() resumes after `await this.startTransport(transport)` and goes on
\* to the next transport.
StartResume(c) ==
    /\ peerTasks[c].op = "start"
    /\ peerTasks[c].pc = "awaitTransport"
    /\ startLoop(c, peerTasks[c], peerTasks[c].i + 1)
    /\ UNCHANGED <<server, held, connVars, discoveryVars, manifestVars, createVars>>

\* Fault: stop() without `if (!this.started) return`.
stop_noGuard(c) ==
    /\ CanCallPeer(c)
    /\ peerTasks' = [peerTasks EXCEPT ![c] =
           [IdlePeerTask EXCEPT !.op = "stop", !.pc = "awaitStop"]]
    /\ UNCHANGED <<peer, server, endpointObjects, held, connVars, discoveryVars, manifestVars, createVars>>

\* stop(), up to its suspension: return at once when not started, else call
\* this.server.stop().
stop(c) ==
    /\ CanCallPeer(c)
    /\ LET call == [IdlePeerTask EXCEPT !.op = "stop"]
       IN peerTasks' = [peerTasks EXCEPT ![c] =
              IF ~peer.started
              THEN PeerReturned(call, "guard", "void")
              ELSE [call EXCEPT !.pc = "awaitStop"]]
    /\ UNCHANGED <<peer, server, endpointObjects, held, connVars, discoveryVars, manifestVars, createVars>>

\* this.server.stop() settles and stop() resumes.  The procedure server is
\* taken to stop and release every transport attached to it that is not in
\* the middle of its bind; then started = false and endpoints = [].
StopFinish(c) ==
    /\ peerTasks[c].op = "stop"
    /\ peerTasks[c].pc = "awaitStop"
    /\ server' = [a \in AdapterIds |->
           IF server[a].state = "binding" THEN server[a] ELSE NoAdapter]
    /\ peer' = [peer EXCEPT !.started = FALSE, !.endpoints = << >>]
    /\ endpointObjects' = Collect(endpointObjects, Reachable(<< >>, held))
    /\ peerTasks' = [peerTasks EXCEPT ![c] = PeerReturned(@, "body", "void")]
    /\ UNCHANGED <<held, connVars, discoveryVars, manifestVars, createVars>>

NextPeer ==
    \/ \E l \in TransportLists : createPeer(l)
    \/ \E c \in PeerCallers : start(c)
    \/ \E c \in PeerCallers : startHttpTransport(c)
    \/ \E c \in PeerCallers : startWebSocketTransport(c)
    \/ \E c \in PeerCallers, o \in {"ok", "throw", "error"} : BindFinish(c, o)
    \/ \E c \in PeerCallers : StartResume(c)
    \/ \E c \in PeerCallers : stop(c)
    \/ \E c \in PeerCallers : StopFinish(c)

SpecPeer == Init /\ [][NextPeer]_vars

\* ------------------------------------------- one caller and its snapshot
\* A single caller of start() and stop() that also keeps the array
\* getEndpoints() returned and writes to it, as any holder of a JavaScript
\* array and of the objects in it can.

Owner == CHOOSE c \in PeerCallers : \A d \in PeerCallers : c <= d

\* const snapshot = peer.getEndpoints()
GetEndpoints ==
    /\ peer.created
    /\ held' = getEndpoints
    /\ endpointObjects' = Collect(endpointObjects, Reachable(peer.endpoints, getEndpoints))
    /\ UNCHANGED <<peer, server, peerTasks, connVars, discoveryVars, manifestVars, createVars>>

\* snapshot.push({ type: "tampered", address: "tampered" })
SnapshotPush ==
    /\ \E r \in ObjectRefs : endpointObjects[r] = Free
    /\ endpointObjects' =
           [endpointObjects EXCEPT ![NewRef] = [type |-> "tampered", address |-> "tampered"]]
    /\ held' = Append(held, NewRef)
    /\ UNCHANGED <<peer, server, peerTasks, connVars, discoveryVars, manifestVars, createVars>>

\* snapshot.pop()
SnapshotPop ==
    /\ held # << >>
    /\ held' = SubSeq(held, 1, Len(held) - 1)
    /\ endpointObjects' =
           Collect(endpointObjects, Reachable(peer.endpoints, SubSeq(held, 1, Len(held) - 1)))
    /\ UNCHANGED <<peer, server, peerTasks, connVars, discoveryVars, manifestVars, createVars>>

\* snapshot[k].type = "tampered" or snapshot[k].address = "tampered"
SnapshotSet(k, field) ==
    /\ k \in DOMAIN held
    /\ endpointObjects' =
           [endpointObjects EXCEPT ![held[k]] =
               IF field = "type" THEN [@ EXCEPT !.type = "tampered"]
                                 ELSE [@ EXCEPT !.address = "tampered"]]
    /\ UNCHANGED <<peer, server, peerTasks, held, connVars, discoveryVars, manifestVars, createVars>>

NextEndpoints ==
    \/ \E l \in TransportLists : createPeer(l)
    \/ start(Owner)
    \/ startHttpTransport(Owner)
    \/ startWebSocketTransport(Owner)
    \/ \E o \in {"ok", "throw", "error"} : BindFinish(Owner, o)
    \/ StartResume(Owner)
    \/ stop(Owner)
    \/ StopFinish(Owner)
    \/ GetEndpoints
    \/ SnapshotPush
    \/ SnapshotPop
    \/ \E k \in ObjectRefs, f \in {"type", "address"} : SnapshotSet(k, f)

SpecEndpoints == Init /\ [][NextEndpoints]_vars

\* ------------------------------------------------ stop() while start() runs
\* One caller starts the peer once; the other calls stop() only while that
\* start() is between its first suspension and its return.

Stopper == CHOOSE c \in PeerCallers : c # Owner

\* The owner's start() is suspended at an await.
StartInFlight ==
    /\ peerTasks[Owner].op = "start"
    /\ peerTasks[Owner].pc \in {"awaitImport", "awaitBind", "awaitTransport"}

\* peer.start(), called once.
startOnce ==
    /\ peerTasks[Owner].pc = "idle"
    /\ start(Owner)

\* peer.stop(), called while the start() is in flight.  started is still
\* false then, so the call returns before it reaches server.stop().
stopDuringStart ==
    /\ StartInFlight
    /\ peerTasks[Stopper].pc = "idle"
    /\ stop(Stopper)

NextStopDuringStart ==
    \/ \E l \in TransportLists : createPeer(l)
    \/ startOnce
    \/ startHttpTransport(Owner)
    \/ startWebSocketTransport(Owner)
    \/ \E o \in {"ok", "throw", "error"} : BindFinish(Owner, o)
    \/ StartResume(Owner)
    \/ stopDuringStart

SpecStopDuringStart == Init /\ [][NextStopDuringStart]_vars

\* ============================================================== Discovery
\* The remote peer: its procedure registry and its _discovery.announce
\* handler, answering the discovery call connect() makes.

\* Fault: a filter that keeps every procedure.
keepInDiscovery_all(proc) == TRUE

\* The handler's filter: !meta?.internal
keepInDiscovery(proc) == ~(proc.meta /\ proc.internal)

\* Fault: a map that leaves the description out.
toProcedureInfo_pathOnly(proc) == [path |-> proc.path]

\* The handler's map: the path, and the description if the metadata has one.
toProcedureInfo(proc) ==
    IF proc.meta /\ proc.description # Undefined
    THEN [path |-> proc.path, description |-> proc.description]
    ELSE [path |-> proc.path]

\* The handler of discoveryAnnounceProcedure over PROCEDURE_REGISTRY.getAll(),
\* at clock reading time.
discoveryAnnounceHandler(getAll, time) ==
    LET kept == SelectSeq(getAll, keepInDiscovery)
    IN [ type |-> "procedure-announce",
         peerId |-> <<"peer", time>>,
         procedures |-> [k \in DOMAIN kept |-> toProcedureInfo(kept[k])] ]

\* getProcedureInfos() over PROCEDURE_REGISTRY.getAll(): the procedures
\* that have a handler, each as its path and its description if it has one.
getProcedureInfos(getAll) ==
    LET withHandler == SelectSeq(getAll, LAMBDA proc : proc.handler)
    IN [k \in DOMAIN withHandler |-> toProcedureInfo(withHandler[k])]

\* The paths registered.
Registered == { registry[k].path : k \in DOMAIN registry }

\* The handler watchProcedures makes with createHandler(eventType), run on
\* proc: the callback's arguments are the event type and the procedure's
\* path, with its description if the metadata has one.
createHandler(eventType, proc) ==
    [ event |-> eventType,
      info |-> IF proc.meta /\ proc.description # Undefined
               THEN [path |-> proc.path, description |-> proc.description]
               ELSE [path |-> proc.path] ]

\* The watcher's handler for eventType is attached to the registry.
Attached(w, eventType) ==
    IF eventType = "register" THEN watchers[w].onRegister ELSE watchers[w].onUnregister

\* The registry emits eventType with proc: every handler attached for it
\* runs once, and calls its callback.
emit(eventType, proc) ==
    [w \in Watchers |->
        IF Attached(w, eventType)
        THEN [watchers[w] EXCEPT !.calls = Append(@, createHandler(eventType, proc))]
        ELSE watchers[w]]

\* The calls of every callback an event would reach can still be followed.
CanEmit(eventType) ==
    \A w \in Watchers : Attached(w, eventType) => Len(watchers[w].calls) < MaxCalls

\* Fault: a registration that is pushed to the connections already made.
Register_pushUpdate(proc) ==
    /\ proc.path \notin Registered
    /\ Len(registry) < MaxRegistry
    /\ registry' = Append(registry, proc)
    /\ clients' = [r \in DOMAIN clients |->
           IF clients[r].built
           THEN [clients[r] EXCEPT !.remoteProcedures =
                    discoveryAnnounceHandler(Append(registry, proc), now).procedures]
           ELSE clients[r]]
    /\ UNCHANGED <<now, connections, tasks, probe, announced, serving, watchers,
                   peerVars, manifestVars, createVars>>

\* A procedure is registered on the registry, which emits "register".
Register(proc) ==
    /\ proc.path \notin Registered
    /\ Len(registry) < MaxRegistry
    /\ CanEmit("register")
    /\ registry' = Append(registry, proc)
    /\ watchers' = emit("register", proc)
    /\ UNCHANGED <<announced, serving, connVars, peerVars, manifestVars, createVars>>

\* A procedure is unregistered from the registry, which emits "unregister".
Unregister(path) ==
    /\ path \in Registered
    /\ CanEmit("unregister")
    /\ registry' = SelectSeq(registry, LAMBDA proc : proc.path # path)
    /\ watchers' = emit("unregister", CHOOSE proc \in { registry[k] : k \in DOMAIN registry } :
                                          proc.path = path)
    /\ UNCHANGED <<announced, serving, connVars, peerVars, manifestVars, createVars>>

\* What the remote peer's ProcedureServer dispatches: the registry it was
\* constructed with, `options.registry ?? PROCEDURE_REGISTRY`.
Served == IF serving.own THEN serving.catalog ELSE registry

\* The remote runs the handler for the discovery call connect() has made,
\* when its server dispatches the discovery path.  The handler reads
\* PROCEDURE_REGISTRY.getAll() whatever registry the server was given.
Announce(t) ==
    /\ tasks[t].op = "connect"
    /\ tasks[t].pc = "awaitDiscovery"
    /\ clients[tasks[t].ref].discovery = "pending"
    /\ \E k \in DOMAIN Served : Served[k].path = DiscoveryPath
    /\ announced' = discoveryAnnounceHandler(registry, now)
    /\ clients' = [clients EXCEPT ![tasks[t].ref].discovery = "handled"]
    /\ UNCHANGED <<now, connections, tasks, probe, registry, serving, watchers,
                   peerVars, manifestVars, createVars>>

\* The response reaches the caller: discoverProcedures returns it and
\* connect() resumes.
DiscoveryResponse(t) ==
    /\ tasks[t].op = "connect"
    /\ tasks[t].pc = "awaitDiscovery"
    /\ clients[tasks[t].ref].discovery = "handled"
    /\ ConnectFinish(t, [ kind |-> "ok", peerId |-> announced.peerId,
                          procedures |-> announced.procedures ])

\* The discovery call fails instead.
DiscoveryFailure(t) ==
    ConnectFinish(t, [kind |-> "failed", peerId |-> Undefined, procedures |-> << >>])

\* Where the remote peer listens.
RemoteAddress == <<"w","s">> \o Sep \o Host

\* What other packages register and unregister, and this package's own
\* discovery procedure.
Registrable == UserProcedures \cup {discoveryAnnounceProcedure}

NextDiscovery ==
    \/ \E p \in Registrable : Register(p)
    \/ \E p \in Registrable : Unregister(p.path)
    \/ \E s \in Suffixes : ProbeConnect(RemoteAddress, Undefined, s)
    \/ Announce(ProbeTask)
    \/ DiscoveryResponse(ProbeTask)
    \/ DiscoveryFailure(ProbeTask)
    \/ \E i \in Ids : DisconnectCall(ProbeTask, i)
    \/ \E c \in 1..MaxClients : ConnectionDisconnectCall(ProbeTask, c)
    \/ \E o \in CloseOutcomes : ConnectionDisconnectFinish(ProbeTask, o)
    \/ DisconnectReturn(ProbeTask)

SpecDiscovery == Init /\ [][NextDiscovery]_vars

\* ----------------------------------------- a peer with a registry of its own

echoPingProcedure == CHOOSE proc \in UserProcedures : proc.path = <<"echo", "ping">>

\* Registries a peer is created with instead of the ambient one.
OwnCatalogs ==
    { <<echoPingProcedure>>, <<echoPingProcedure, discoveryAnnounceProcedure>> }

\* createPeer({ ..., registry: catalog }) for the remote peer.
createPeerWithRegistry(catalog) ==
    /\ ~serving.own
    /\ tasks[ProbeTask].pc = "idle"
    /\ serving' = [own |-> TRUE, catalog |-> catalog]
    /\ UNCHANGED <<registry, announced, watchers, connVars, peerVars, manifestVars, createVars>>

NextCatalog ==
    \/ \E catalog \in OwnCatalogs : createPeerWithRegistry(catalog)
    \/ NextDiscovery

SpecCatalog == Init /\ [][NextCatalog]_vars

\* =============================================================== Manifest
\* manifest.generate: the catalog read from the registry, filtered by
\* namespace, rendered in the requested formats and written to outputDir.

\* Procedures other packages register, as manifest.generate sees them.
gitStatusProcedure ==
    [ path |-> <<"git", "status">>, meta |-> TRUE, description |-> "Get git status",
      internal |-> FALSE,
      handler |-> TRUE ]
gitAddProcedure ==
    [ path |-> <<"git", "add">>, meta |-> FALSE, description |-> Undefined,
      internal |-> FALSE,
      handler |-> TRUE ]
gitProcedure ==
    [ path |-> <<"git">>, meta |-> TRUE, description |-> Undefined,
      internal |-> FALSE,
      handler |-> TRUE ]
fsReadProcedure == CHOOSE proc \in UserProcedures : proc.path = <<"fs", "read">>

ManifestPool == {gitStatusProcedure, gitAddProcedure, gitProcedure, fsReadProcedure}

\* A procedure whose namespace differs from git's in letter case only.
gitLogProcedure ==
    [ path |-> <<"Git", "log">>, meta |-> FALSE, description |-> Undefined,
      internal |-> FALSE,
      handler |-> TRUE ]

\* What is registered when the TypeScript declarations are generated.
DeclarationPool == {gitStatusProcedure, gitAddProcedure, gitLogProcedure}

\* Fault: a filter that compares the first segment only.
matchesNamespace_firstSegment(proc, namespace) ==
    Len(proc.path) >= 1 /\ proc.path[1] = namespace[1]

\* The filter's callback: every segment of the namespace equals the segment
\* of the path at its position (a position past the end of the path reads
\* undefined, which equals no segment).
matchesNamespace(proc, namespace) ==
    \A i \in 1..Len(namespace) : i <= Len(proc.path) /\ proc.path[i] = namespace[i]

\* `if (input.namespace && input.namespace.length > 0)` and the filter.
filterByNamespace(allProcedures, namespace) ==
    IF namespace # None /\ Len(namespace[1]) > 0
    THEN SelectSeq(allProcedures, LAMBDA proc : matchesNamespace(proc, namespace[1]))
    ELSE allProcedures

\* The handler's map to ProcedureInfo: the path, and the description if the
\* metadata has one.
toManifestInfo(proc) ==
    IF proc.meta /\ proc.description # Undefined
    THEN [path |-> proc.path, description |-> proc.description]
    ELSE [path |-> proc.path]

\* Fault: a manifest that stamps every entry with the generation time.
generateJson_stampEntries(procedureInfos, time) ==
    [ version |-> "1.0.0", generatedAt |-> time,
      procedures |-> [k \in DOMAIN procedureInfos |->
                         [path |-> procedureInfos[k].path, generatedAt |-> time]] ]

\* generateJson(procedures) at clock reading time.
generateJson(procedureInfos, time) ==
    [version |-> "1.0.0", generatedAt |-> time, procedures |-> procedureInfos]

\* generateTypeScript's grouping key: proc.path[0] ?? "root"
namespaceOf(info) == IF Len(info.path) >= 1 THEN info.path[1] ELSE "root"

\* The keys of generateTypeScript's Map, in insertion order.
RECURSIVE namespaceKeys(_)
namespaceKeys(procedureInfos) ==
    IF procedureInfos = << >>
    THEN << >>
    ELSE LET n == Len(procedureInfos)
             before == namespaceKeys(SubSeq(procedureInfos, 1, n - 1))
             namespace == namespaceOf(procedureInfos[n])
         IN IF \E k \in DOMAIN before : before[k] = namespace
            THEN before
            ELSE Append(before, namespace)

\* A JavaScript string as the characters it is made of.
Spelling ==
    { <<"server", <<"s", "e", "r", "v", "e", "r">>>>,
      <<"create", <<"c", "r", "e", "a", "t", "e">>>>,
      <<"connect", <<"c", "o", "n", "n", "e", "c", "t">>>>,
      <<"disconnect", <<"d", "i", "s", "c", "o", "n", "n", "e", "c", "t">>>>,
      <<"manifest", <<"m", "a", "n", "i", "f", "e", "s", "t">>>>,
      <<"generate", <<"g", "e", "n", "e", "r", "a", "t", "e">>>>,
      <<"_discovery", <<"_", "d", "i", "s", "c", "o", "v", "e", "r", "y">>>>,
      <<"announce", <<"a", "n", "n", "o", "u", "n", "c", "e">>>>,
      <<"echo", <<"e", "c", "h", "o">>>>,
      <<"ping", <<"p", "i", "n", "g">>>>,
      <<"admin", <<"a", "d", "m", "i", "n">>>>,
      <<"reset", <<"r", "e", "s", "e", "t">>>>,
      <<"fs", <<"f", "s">>>>,
      <<"read", <<"r", "e", "a", "d">>>>,
      <<"git", <<"g", "i", "t">>>>,
      <<"status", <<"s", "t", "a", "t", "u", "s">>>>,
      <<"add", <<"a", "d", "d">>>>,
      <<"stub", <<"s", "t", "u", "b">>>>,
      <<"todo", <<"t", "o", "d", "o">>>>,
      <<"root", <<"r", "o", "o", "t">>>>,
      <<"Git", <<"G", "i", "t">>>>,
      <<"log", <<"l", "o", "g">>>> }
chars(str) == (CHOOSE pair \in Spelling : pair[1] = str)[2]

LowerCase ==
    <<"a", "b", "c", "d", "e", "f", "g", "h", "i", "j", "k", "l", "m", "n", "o", "p", "q", "r", "s", "t", "u", "v", "w", "x", "y", "z">>
UpperCase ==
    <<"A", "B", "C", "D", "E", "F", "G", "H", "I", "J", "K", "L", "M", "N", "O", "P", "Q", "R", "S", "T", "U", "V", "W", "X", "Y", "Z">>

\* String.prototype.toUpperCase / toLowerCase on one character.
toUpperCase(ch) ==
    IF \E i \in DOMAIN LowerCase : LowerCase[i] = ch
    THEN UpperCase[CHOOSE i \in DOMAIN LowerCase : LowerCase[i] = ch]
    ELSE ch
toLowerCase(ch) ==
    IF \E i \in DOMAIN UpperCase : UpperCase[i] = ch
    THEN LowerCase[CHOOSE i \in DOMAIN UpperCase : UpperCase[i] = ch]
    ELSE ch

\* The characters the pattern /[-_\s]+/ matches.
WordSeparators == {"-", "_", " "}

\* pascalCase(str): split on runs of separators, upper-case the first
\* character of each word, lower-case the rest, join.  atStart says that
\* the next character begins a word.
RECURSIVE pascalCaseFrom(_, _)
pascalCaseFrom(str, atStart) ==
    IF str = << >>
    THEN << >>
    ELSE IF Head(str) \in WordSeparators
    THEN pascalCaseFrom(Tail(str), TRUE)
    ELSE <<IF atStart THEN toUpperCase(Head(str)) ELSE toLowerCase(Head(str))>>
         \o pascalCaseFrom(Tail(str), FALSE)
pascalCase(str) == pascalCaseFrom(str, TRUE)

\* camelCase(str): pascalCase with its first character lower-cased.
camelCase(str) ==
    LET pascal == pascalCase(str)
    IN IF pascal = << >> THEN << >> ELSE <<toLowerCase(Head(pascal))>> \o Tail(pascal)

\* path.slice(1).join("_") || namespace
RECURSIVE joinUnderscore(_)
joinUnderscore(segments) ==
    IF segments = << >>
    THEN << >>
    ELSE IF Len(segments) = 1
    THEN chars(segments[1])
    ELSE chars(segments[1]) \o <<"_">> \o joinUnderscore(Tail(segments))
methodName(path, namespace) ==
    LET joined == joinUnderscore(SubSeq(path, 2, Len(path)))
    IN IF joined = << >> THEN chars(namespace) ELSE joined

\* One entry of a namespace's interface: its name, its path literal and
\* its doc comment (for a description that is not empty).
interfaceEntry(info, namespace) ==
    [ name |-> camelCase(methodName(info.path, namespace)),
      path |-> info.path,
      description |-> IF "description" \in DOMAIN info /\ info.description # ""
                      THEN info.description ELSE Undefined ]

Suffix == <<"P","r","o","c","e","d","u","r","e","s">>

\* generateTypeScript(procedures) at clock reading time: the header's
\* timestamp, one interface per namespace with an entry per procedure, and
\* the RemoteProcedures interface with one member per namespace.
generateTypeScript(procedureInfos, time) ==
    LET keys == namespaceKeys(procedureInfos)
    IN [ generatedAt |-> time,
         interfaces |-> [k \in DOMAIN keys |->
             LET procs == SelectSeq(procedureInfos,
                                    LAMBDA info : namespaceOf(info) = keys[k])
             IN [ namespace |-> keys[k],
                  name |-> pascalCase(chars(keys[k])) \o Suffix,
                  procs |-> [j \in DOMAIN procs |-> interfaceEntry(procs[j], keys[k])] ]],
         combined |-> [k \in DOMAIN keys |->
             [ name |-> camelCase(chars(keys[k])),
               type |-> pascalCase(chars(keys[k])) \o Suffix ]] ]

\* Fault: the default of the input schema, which the handler does not apply.
defaultFormats_schema == <<"json", "typescript">>

\* `input.formats ?? ["json"]`
defaultFormats == <<"json">>

\* What mkdir(dir, { recursive: true }) can do: make the directory, find it
\* there already (which resolves), or fail.
MkdirOutcomes == {"created", "exists", "failed"}

\* ensureDir(dir): the catch swallows whatever mkdir rejects with.
ensureDir(mkdir) == "returned"

\* join(input.outputDir, name)
join(outputDir, name) == <<outputDir, name>>

FileNames == [json |-> "procedures.json", typescript |-> "procedures.d.ts"]

\* The handler of manifestGenerateProcedure, from the call to its return
\* or throw.  mkdir is what the directory creation does and writeOk[f]
\* whether the write of format f's file succeeds.
manifestGenerate(input, mkdir, writeOk) ==
    LET allProcedures == registry
        selected == filterByNamespace(allProcedures, input.namespace)
        procedureInfos == [k \in DOMAIN selected |-> toManifestInfo(selected[k])]
        formats == IF input.formats = None THEN defaultFormats ELSE input.formats[1]
        includes(f) == \E k \in DOMAIN formats : formats[k] = f
        toDisk == input.outputDir # Undefined /\ input.outputDir # ""
        writes(f) == includes(f) /\ toDisk
        dirThrows == (writes("json") \/ writes("typescript")) /\ ensureDir(mkdir) = "threw"
        jsonThrows == writes("json") /\ ~writeOk["json"]
        typescriptThrows == writes("typescript") /\ ~writeOk["typescript"]
        threw == dirThrows \/ jsonThrows \/ typescriptThrows
        jsonWritten == writes("json") /\ ~dirThrows /\ ~jsonThrows
        typescriptWritten == writes("typescript") /\ ~threw
        filesWritten ==
            (IF jsonWritten THEN <<join(input.outputDir, FileNames["json"])>> ELSE << >>)
            \o (IF typescriptWritten
                THEN <<join(input.outputDir, FileNames["typescript"])>> ELSE << >>)
        fields == (IF includes("json") THEN {"json"} ELSE {})
                  \cup (IF includes("typescript") THEN {"typescript"} ELSE {})
                  \cup (IF Len(filesWritten) > 0 THEN {"filesWritten"} ELSE {})
        result == [f \in fields |->
                      CASE f = "json" -> generateJson(procedureInfos, now)
                        [] f = "typescript" -> generateTypeScript(procedureInfos, now)
                        [] OTHER -> filesWritten]
    IN /\ generated' =
              [ called |-> TRUE, input |-> input, allProcedures |-> allProcedures,
                repeats |-> /\ generated.called
                            /\ generated.input = input
                            /\ generated.allProcedures = allProcedures,
                mkdir |-> IF writes("json") \/ writes("typescript") THEN mkdir ELSE "none",
                threw |-> threw,
                error |-> IF dirThrows THEN "mkdir"
                          ELSE IF threw THEN "writeFile" ELSE "none",
                result |-> IF threw THEN << >> ELSE result ]
       /\ files' = files \cup { filesWritten[k] : k \in DOMAIN filesWritten }
       /\ UNCHANGED <<connVars, peerVars, discoveryVars, createVars>>

\* Inputs of manifest.generate that keep the result in memory.
ManifestNamespaces ==
    { None, Some(<< >>), Some(<<"git">>), Some(<<"git", "status">>),
      Some(<<"git", "status", "porcelain">>), Some(<<"hg">>) }
CatalogInputs ==
    [ namespace : ManifestNamespaces,
      formats : {None, Some(<<"json", "typescript">>)},
      outputDir : {Undefined} ]

\* Inputs of manifest.generate over every choice of formats and outputDir.
ManifestFormats ==
    { None, Some(<< >>), Some(<<"json">>), Some(<<"typescript">>),
      Some(<<"json", "typescript">>), Some(<<"typescript", "json">>) }
OutputDirs == {Undefined, "", "out"}
FileInputs == [namespace : {None}, formats : ManifestFormats, outputDir : OutputDirs]

AllWritesOk == [json |-> TRUE, typescript |-> TRUE]

\* The catalog changes between calls of manifest.generate.
NextManifest ==
    \/ Tick
    \/ \E proc \in ManifestPool : Register(proc)
    \/ \E proc \in ManifestPool : Unregister(proc.path)
    \/ \E input \in CatalogInputs : manifestGenerate(input, "created", AllWritesOk)

SpecManifest == Init /\ [][NextManifest]_vars

\* manifest.generate writes its files, and the file system answers as it may.
NextManifestFiles ==
    \/ Tick
    \/ \E input \in FileInputs, mkdir \in MkdirOutcomes,
          writeOk \in [{"json", "typescript"} -> BOOLEAN] :
          manifestGenerate(input, mkdir, writeOk)

SpecManifestFiles == Init /\ [][NextManifestFiles]_vars

\* manifest.generate asked for the TypeScript declarations of the catalog.
DeclarationInputs ==
    [namespace : {None, Some(<<"git">>)}, formats : {Some(<<"typescript">>)},
     outputDir : {Undefined}]

NextDeclarations ==
    \/ \E proc \in DeclarationPool : Register(proc)
    \/ \E proc \in DeclarationPool : Unregister(proc.path)
    \/ \E input \in DeclarationInputs : manifestGenerate(input, "created", AllWritesOk)

SpecDeclarations == Init /\ [][NextDeclarations]_vars

\* ========================================================== server.create
\* The handler of server.create: it makes a peer, starts it, stores it in
\* activePeers and reports its endpoints and a procedure count.

\* A procedure registered without a handler.
stubProcedure ==
    [ path |-> <<"stub", "todo">>, meta |-> FALSE, description |-> Undefined,
      internal |-> FALSE,
      handler |-> FALSE ]

\* What other packages register while server.create runs.
CreatePool == {echoPingProcedure, stubProcedure}

\* The inputs of server.create: both fields are optional.
AutoRegisterOpts == {Undefined, "true", "false"}
CreateInputs ==
    [ transports : {None} \cup { Some(list) : list \in TransportLists },
      autoRegister : AutoRegisterOpts ]

\* `input.transports ?? [{ type: "http", port: 3000 }]`
transportsOrDefault(input) ==
    IF input.transports = None THEN <<"http">> ELSE input.transports[1]

\* `input.autoRegister ?? true`, what createPeer is given.
autoRegisterOrDefault(input) ==
    IF input.autoRegister = Undefined THEN "true" ELSE input.autoRegister

\* `input.autoRegister ? getAll().filter((p) => p.handler).length : 0`:
\* the branch is taken on the input's own field, which is falsy when omitted.
procedureCount(input, getAll) ==
    IF input.autoRegister = "true"
    THEN Len(SelectSeq(getAll, LAMBDA proc : proc.handler))
    ELSE 0

\* Fault: a handler that stores the peer in activePeers before it starts it.
serverCreate_storeFirst(input, suffix) ==
    /\ creating.pc = "idle"
    /\ ~peer.created
    /\ peer' = NewPeer(transportsOrDefault(input))
    /\ creating' = [ pc |-> "awaitStart", input |-> input,
                     autoRegister |-> autoRegisterOrDefault(input),
                     serverId |-> <<"peer", now, suffix>>, threw |-> FALSE,
                     result |-> << >> ]
    /\ activePeers' = activePeers \cup {<<"peer", now, suffix>>}
    /\ UNCHANGED <<server, endpointObjects, peerTasks, held,
                   connVars, discoveryVars, manifestVars>>

\* server.create is called: the id is minted, the defaults are applied and
\* createPeer makes the peer.
serverCreate(input, suffix) ==
    /\ creating.pc = "idle"
    /\ ~peer.created
    /\ peer' = NewPeer(transportsOrDefault(input))
    /\ creating' = [ pc |-> "awaitStart", input |-> input,
                     autoRegister |-> autoRegisterOrDefault(input),
                     serverId |-> <<"peer", now, suffix>>, threw |-> FALSE,
                     result |-> << >> ]
    /\ UNCHANGED <<server, endpointObjects, peerTasks, held, activePeers,
                   connVars, discoveryVars, manifestVars>>

\* The handler resumes after `await createPeer(...)` and calls peer.start().
serverCreateStart ==
    /\ creating.pc = "awaitStart"
    /\ peerTasks[Owner].pc = "idle"
    /\ start(Owner)

\* peer.start() has settled and the handler resumes: a rejection rejects
\* server.create; otherwise the peer is stored and the output is built.
serverCreateFinish ==
    /\ creating.pc = "awaitStart"
    /\ peerTasks[Owner].op = "start"
    /\ peerTasks[Owner].pc = "done"
    /\ IF peerTasks[Owner].result = "threw"
       THEN /\ creating' = [creating EXCEPT !.pc = "done", !.threw = TRUE]
            /\ UNCHANGED activePeers
       ELSE /\ activePeers' = activePeers \cup {creating.serverId}
            /\ creating' = [creating EXCEPT
                   !.pc = "done",
                   !.result = [ serverId |-> creating.serverId,
                                endpoints |-> Deref(getEndpoints),
                                procedureCount |-> procedureCount(creating.input, registry) ]]
    /\ UNCHANGED <<connVars, peerVars, discoveryVars, manifestVars>>

\* getActivePeerIds()
getActivePeerIds == activePeers

NextCreate ==
    \/ \E input \in CreateInputs, suffix \in Suffixes : serverCreate(input, suffix)
    \/ serverCreateStart
    \/ startHttpTransport(Owner)
    \/ startWebSocketTransport(Owner)
    \/ \E o \in {"ok", "throw", "error"} : BindFinish(Owner, o)
    \/ StartResume(Owner)
    \/ serverCreateFinish
    \/ \E proc \in CreatePool : Register(proc)
    \/ \E proc \in CreatePool : Unregister(proc.path)

SpecCreate == Init /\ [][NextCreate]_vars

\* ========================================================== watchProcedures

\* watchProcedures(callback): a handler for each event is attached.
watchProcedures(w) ==
    /\ watchers[w].state = "none"
    /\ watchers' = [watchers EXCEPT ![w] =
           [@ EXCEPT !.state = "subscribed", !.onRegister = TRUE, !.onUnregister = TRUE]]
    /\ UNCHANGED <<registry, announced, serving, connVars, peerVars, manifestVars, createVars>>

\* Fault: an unsubscribe that detaches the register handler only.
unsubscribe_registerOnly(w) ==
    /\ watchers[w].state # "none"
    /\ watchers' = [watchers EXCEPT ![w] =
           [@ EXCEPT !.state = "unsubscribed", !.onRegister = FALSE]]
    /\ UNCHANGED <<registry, announced, serving, connVars, peerVars, manifestVars, createVars>>

\* The function watchProcedures returned is called: both handlers are
\* detached (again, to no effect, on a second call).
unsubscribe(w) ==
    /\ watchers[w].state # "none"
    /\ watchers' = [watchers EXCEPT ![w] =
           [@ EXCEPT !.state = "unsubscribed", !.onRegister = FALSE, !.onUnregister = FALSE]]
    /\ UNCHANGED <<registry, announced, serving, connVars, peerVars, manifestVars, createVars>>

\* What is registered and unregistered while callbacks watch.
WatchPool == {echoPingProcedure, fsReadProcedure}

NextWatch ==
    \/ \E w \in Watchers : watchProcedures(w)
    \/ \E w \in Watchers : unsubscribe(w)
    \/ \E proc \in WatchPool : Register(proc)
    \/ \E proc \in WatchPool : Unregister(proc.path)

SpecWatch == Init /\ [][NextWatch]_vars

\* ================================================================= claims

Refs == 1..Len(clients)

\* Task t makes a new call in this step.
Calls(t, op) ==
    /\ tasks[t].pc \in {"idle", "done"}
    /\ tasks'[t] # tasks[t]
    /\ tasks'[t].op = op

\* Task t's connect() settles in this step.
ConnectSettles(t) ==
    /\ tasks[t].op = "connect"
    /\ tasks[t].pc = "awaitDiscovery"
    /\ tasks'[t].pc = "done"

\* C1: every entry a reader can find in the registry is a Connection whose
\* connect() has created its client and has had its discovery call settle: the
\* object is built, its discovery is not pending, no connect() still awaiting
\* discovery owns it, its state is not 'connecting' and its remotePeerId is set.
C1_NoConnectingEntryVisible ==
    \A k \in getConnectionIds :
        LET c == clients[getConnection(k)]
        IN /\ c.built
           /\ c.discovery # "pending"
           /\ c.state \notin {"none", "connecting"}
           /\ c.remotePeerId # Undefined
           /\ \A t \in Tasks :
                  (tasks[t].op = "connect" /\ tasks[t].pc = "awaitDiscovery")
                      => tasks[t].ref # getConnection(k)

\* A reader finds a finished entry while another connect() awaits discovery.
C1_Witness ==
    /\ getConnectionIds # {}
    /\ \E t \in Tasks :
           /\ tasks[t].op = "connect"
           /\ tasks[t].pc = "awaitDiscovery"
           /\ clients[tasks[t].ref].discovery = "pending"
           /\ \A k \in getConnectionIds : getConnection(k) # tasks[t].ref

\* C2: a Connection's remote.state is 'connected' only if its discovery call
\* succeeded.
C2_ConnectedOnlyIfDiscovered ==
    \A r \in Refs :
        (clients[r].built /\ clients[r].state = "connected")
            => clients[r].discovery = "ok"

\* C3: a connect() whose channel cannot be opened fails to its caller, returns
\* no Connection and adds no registry entry.
C3_ChannelFailureFailsConnect ==
    [][ \A t \in Tasks :
          (ConnectSettles(t) /\ clients'[tasks[t].ref].discovery = "unreachable")
              => /\ tasks'[t].result # "conn"
                 /\ ~ clients'[tasks[t].ref].built
                 /\ connections' = connections ]_vars

\* C4: a connect() whose discovery call fails over an open channel returns a
\* Connection with remotePeerId "unknown" and no remoteProcedures, and the
\* registry holds that Connection under its id when connect() returns.
C4_DiscoveryFailureDegrades ==
    [][ \A t \in Tasks :
          (ConnectSettles(t) /\ clients'[tasks[t].ref].discovery = "failed")
              => /\ tasks'[t].result = "conn"
                 /\ clients'[tasks[t].ref].built
                 /\ clients'[tasks[t].ref].remotePeerId = "unknown"
                 /\ clients'[tasks[t].ref].remoteProcedures = << >>
                 /\ tasks[t].id \in DOMAIN connections'
                 /\ connections'[tasks[t].id] = tasks[t].ref ]_vars

\* A connect() has returned a degraded Connection, and the registry holds it.
C4_Witness ==
    \E t \in Tasks :
        /\ tasks[t].op = "connect"
        /\ tasks[t].pc = "done"
        /\ tasks[t].result = "conn"
        /\ getConnection(tasks[t].id) # 0
        /\ clients[getConnection(tasks[t].id)].discovery = "failed"
        /\ clients[getConnection(tasks[t].id)].remotePeerId = "unknown"

\* C5: of two disconnect(id) calls a caller makes one after the other, the
\* second returns false once the first has returned true; a disconnect of an
\* id the registry does not hold returns false, raises nothing and leaves the
\* registry as it is; and a disconnect of an id the registry holds does not
\* return false.  (That the first call returns true rather than raising is
\* stated for a close that succeeds; a failing close is raised to the caller.)
C5_DisconnectTwice ==
    [][ \A t \in Tasks :
          Calls(t, "disconnect")
              => /\ (tasks[t].op = "disconnect" /\ tasks[t].result = "true"
                        /\ tasks'[t].id = tasks[t].id)
                     => (tasks'[t].pc = "done" /\ tasks'[t].result = "false")
                 /\ (tasks'[t].id \notin DOMAIN connections)
                     => /\ tasks'[t].pc = "done"
                        /\ tasks'[t].result = "false"
                        /\ connections' = connections
                        /\ clients' = clients
                 /\ (tasks'[t].id \in DOMAIN connections)
                     => tasks'[t].pc = "awaitClose" ]_vars

\* C6: when disconnect(id) returns true the connection's channel has been
\* closed and id is not in the registry; the removal takes id's entry out of
\* the registry and changes no other entry.
C6_DisconnectRemoves ==
    [][ \A t \in Tasks :
          /\ (tasks[t].op = "disconnect" /\ tasks[t].pc = "deleted"
                 /\ tasks'[t].pc = "done" /\ tasks'[t].result = "true")
              => /\ clients'[tasks[t].ref].closed
                 /\ tasks[t].id \notin DOMAIN connections'
          /\ (tasks[t].op = "disconnect" /\ tasks[t].pc = "awaitClose"
                 /\ tasks'[t].pc = "deleted")
              => /\ DOMAIN connections' = (DOMAIN connections) \ {tasks[t].id}
                 /\ \A k \in DOMAIN connections' : connections'[k] = connections[k]
      ]_vars

\* C7: the id a connect() mints differs from every id in the registry and
\* from the id of every other connect() in flight, and the registry has one
\* entry per Connection returned and not yet torn down.
C7_FreshIds ==
    /\ \A t \in Tasks :
           (tasks[t].op = "connect" /\ tasks[t].pc = "awaitDiscovery")
               => /\ tasks[t].id \notin DOMAIN connections
                  /\ \A u \in Tasks \ {t} :
                         (tasks[u].op = "connect" /\ tasks[u].pc = "awaitDiscovery")
                             => tasks[u].id # tasks[t].id
    /\ Cardinality(DOMAIN connections)
           = Cardinality({r \in Refs : clients[r].built /\ ~ clients[r].closed})

\* C8: a Connection's remote.state moves only connecting -> connected,
\* connecting -> error or connected -> disconnected; a teardown leaves it
\* 'disconnected'; 'disconnected' and 'error' are never left.
C8_StateMachine ==
    [][ \A r \in Refs :
          /\ (clients[r].built /\ clients'[r].state # clients[r].state)
              => <<clients[r].state, clients'[r].state>> \in
                     { <<"connecting", "connected">>, <<"connecting", "error">>,
                       <<"connected", "disconnected">> }
          /\ (~ clients[r].closed /\ clients'[r].closed)
              => clients'[r].state = "disconnected" ]_vars

\* C9: a connect() whose transport is 'local', given or inferred from the
\* address, throws in the step that calls it: no client is created, no
\* discovery call is issued, and the registry is left as it was.
C9_LocalConnectFails ==
    [][ \A t \in Tasks :
          (Calls(t, "connect")
              /\ (probe'.transport = "local"
                  \/ (probe'.transport = Undefined
                      /\ startsWith(probe'.address, <<"l","o","c","a","l">> \o Sep))))
              => /\ tasks'[t].pc = "done"
                 /\ tasks'[t].result = "threwLocal"
                 /\ clients' = clients
                 /\ connections' = connections ]_vars

\* connect() was called on a local:// address without a transport, with a
\* Connection already in the registry, and has thrown.
C9_Witness ==
    /\ probe.transport = Undefined
    /\ probe.address = <<"l","o","c","a","l">> \o Sep \o Host
    /\ tasks[ProbeTask].op = "connect"
    /\ tasks[ProbeTask].result = "threwLocal"
    /\ getConnectionIds # {}

\* The scheme of an address: what stands before its first "://".
SepAt(s, i) == i + 2 <= Len(s) /\ SubSeq(s, i, i + 2) = Sep
SchemeOf(s) ==
    IF \E i \in 1..Len(s) : SepAt(s, i)
    THEN LET first == CHOOSE i \in 1..Len(s) :
                          SepAt(s, i) /\ \A j \in 1..(i - 1) : ~ SepAt(s, j)
         IN SubSeq(s, 1, first - 1)
    ELSE <<"n","o","n","e">>

TransportOfScheme(scheme) ==
    CASE scheme \in {<<"w","s">>, <<"w","s","s">>} -> "websocket"
      [] scheme \in {<<"h","t","t","p">>, <<"h","t","t","p","s">>} -> "http"
      [] scheme = <<"l","o","c","a","l">> -> "local"
      [] OTHER -> "http"

ExpectedTransport(p) ==
    IF p.transport # Undefined THEN p.transport ELSE TransportOfScheme(SchemeOf(p.address))

\* C10: the transport connect() resolves, hands to createClient and records in
\* the Connection is the supplied one when one is supplied, and otherwise the
\* one of the address scheme: ws, wss -> websocket; http, https -> http;
\* local -> local; anything else -> http.
C10_TransportByScheme ==
    (tasks[ProbeTask].op = "connect")
        => /\ tasks[ProbeTask].transport = ExpectedTransport(probe)
           /\ (tasks[ProbeTask].pc = "awaitDiscovery")
                  => clients[tasks[ProbeTask].ref].transport = ExpectedTransport(probe)
           /\ (tasks[ProbeTask].result = "conn")
                  => /\ getConnection(tasks[ProbeTask].id) # 0
                     /\ clients[getConnection(tasks[ProbeTask].id)].transport
                            = ExpectedTransport(probe)

\* A Connection made from a wss:// address without a transport is recorded
\* as websocket.
C10_Witness ==
    /\ probe.transport = Undefined
    /\ probe.address = <<"w","s","s">> \o Sep \o Host
    /\ tasks[ProbeTask].result = "conn"
    /\ clients[getConnection(tasks[ProbeTask].id)].transport = "websocket"

\* ------------------------------------------------------------- the peer

\* In this step caller c makes a call of op.
PeerCalls(c, op) ==
    /\ peerTasks[c].pc \in {"idle", "done"}
    /\ peerTasks'[c] # peerTasks[c]
    /\ peerTasks'[c].op = op

\* In this step a call of op by caller c returns or throws.
PeerReturns(c, op) ==
    /\ peerTasks'[c] # peerTasks[c]
    /\ peerTasks'[c].op = op
    /\ peerTasks'[c].pc = "done"

\* No call on the peer is in flight.
PeerQuiet == \A c \in PeerCallers : peerTasks[c].pc \in {"idle", "done"}

\* C11: a start() made while the peer is started returns at once, binds no
\* adapter, attaches nothing to the procedure server and leaves the endpoint
\* list, the endpoint objects and the started flag as they were.
C11_StartWhenStartedIsNoOp ==
    [][ \A c \in PeerCallers :
          (PeerCalls(c, "start") /\ peer.started)
          => /\ peer' = peer
             /\ server' = server
             /\ endpointObjects' = endpointObjects
             /\ peerTasks'[c].pc = "done"
             /\ peerTasks'[c].result = "void" ]_vars

\* A start() that found the peer started, on a peer that has endpoints.
C11_Witness ==
    \E c \in PeerCallers :
        /\ peerTasks[c].op = "start"
        /\ peerTasks[c].pc = "done"
        /\ peerTasks[c].ran = "guard"
        /\ peer.started
        /\ getEndpoints # << >>

\* C12: whenever no call on the peer is in flight (so also after a start()
\* that failed part-way), getEndpoints() is non-empty only if the peer is
\* started.
C12_EndpointsOnlyWhileStarted ==
    (PeerQuiet /\ getEndpoints # << >>) => peer.started

\* C13: when a stop() returns and no other call on the peer is in flight,
\* getEndpoints() is empty and no transport of the peer is listening.
C13_StopLeavesNothingBound ==
    [][ \A c \in PeerCallers :
          (PeerReturns(c, "stop") /\ PeerQuiet')
          => /\ getEndpoints' = << >>
             /\ \A a \in AdapterIds : server'[a].state # "listening" ]_vars

\* C14: a stop() made while the peer is not started returns at once without
\* waiting on the procedure server, and leaves the started flag, the endpoint
\* list and the server's transports as they were.
C14_StopWhenNotStartedIsNoOp ==
    [][ \A c \in PeerCallers :
          (PeerCalls(c, "stop") /\ ~peer.started)
          => /\ peer' = peer
             /\ server' = server
             /\ endpointObjects' = endpointObjects
             /\ peerTasks'[c].pc = "done"
             /\ peerTasks'[c].result = "void" ]_vars

\* A stop() that found the peer not started, after another stop() has
\* stopped it.
C14_Witness ==
    \E c, d \in PeerCallers :
        /\ peerTasks[c].op = "stop" /\ peerTasks[c].pc = "done"
        /\ peerTasks[c].ran = "guard"
        /\ peerTasks[d].op = "stop" /\ peerTasks[d].pc = "done"
        /\ peerTasks[d].ran = "body"
        /\ ~peer.started

\* C15: what getEndpoints() returns is a snapshot: a step in which the
\* holder writes to the returned array or to an endpoint in it leaves what
\* getEndpoints() shows unchanged, and a step of start() or stop() leaves
\* what the held array shows unchanged.
C15_EndpointsSnapshot ==
    [][ /\ (peer' = peer /\ peerTasks' = peerTasks)
           => Deref(getEndpoints)' = Deref(getEndpoints)
        /\ held' = held => Deref(held)' = Deref(held) ]_vars

\* C16: a peer that has been constructed has only http, websocket and local
\* transports: createPeer lets no other type through to start().
C16_UnknownTypeRejected ==
    peer.created => \A k \in DOMAIN peer.transports : peer.transports[k] \in TransportTypes

\* getEndpoints() shows one endpoint per configured transport, in order, of
\* the transport's type, the local one at "local://in-process".
OneEndpointPerTransport ==
    /\ Len(getEndpoints) = Len(peer.transports)
    /\ \A k \in DOMAIN getEndpoints :
          /\ k \in DOMAIN peer.transports
          /\ Deref(getEndpoints)[k].type = peer.transports[k]
          /\ peer.transports[k] = "local" => Deref(getEndpoints)[k] = LocalEndpoint

\* C17: when a start() that went through the transport list returns, on a
\* peer of http, websocket and local transports, getEndpoints() shows one
\* endpoint per configured transport, in configuration order and of its type.
C17_OneEndpointPerTransport ==
    [][ \A c \in PeerCallers :
          ( /\ PeerReturns(c, "start")
            /\ peerTasks'[c].ran = "body"
            /\ peerTasks'[c].result = "void"
            /\ \A k \in DOMAIN peer.transports : peer.transports[k] \in TransportTypes )
          => OneEndpointPerTransport' ]_vars

\* ------------------------------------------------------------ discovery

\* In this step the remote runs the announce handler for caller t's call.
Handles(t) ==
    /\ tasks[t].pc = "awaitDiscovery"
    /\ clients[tasks[t].ref].discovery = "pending"
    /\ clients'[tasks[t].ref].discovery = "handled"

\* C18: no response of _discovery.announce lists the path
\* ["_discovery", "announce"], whatever the registry held when it was made.
C18_AnnounceOmitsItself ==
    \A k \in DOMAIN announced.procedures : announced.procedures[k].path # DiscoveryPath

\* A response listing procedures, made by a registry that holds the discovery
\* procedure next to procedures registered by others.
C18_Witness ==
    /\ announced.type = "procedure-announce"
    /\ DiscoveryPath \in Registered
    /\ \E k \in DOMAIN announced.procedures :
          announced.procedures[k].path \in { p.path : p \in UserProcedures }

\* The positions of the registry's procedures that are not flagged internal.
NonInternal(reg) == { i \in DOMAIN reg : ~(reg[i].meta /\ reg[i].internal = TRUE) }

\* list is the non-internal procedures of reg, one entry each, in the order
\* of reg, each with the path and with the description exactly when the
\* procedure has one.
ListsNonInternal(list, reg) ==
    /\ Len(list) = Cardinality(NonInternal(reg))
    /\ \A k \in DOMAIN list :
          LET i == CHOOSE j \in NonInternal(reg) :
                       Cardinality({ h \in NonInternal(reg) : h <= j }) = k
              described == reg[i].meta /\ reg[i].description # Undefined
          IN /\ list[k].path = reg[i].path
             /\ described => /\ DOMAIN list[k] = {"path", "description"}
                             /\ list[k].description = reg[i].description
             /\ ~described => DOMAIN list[k] = {"path"}

\* C19: the response the handler makes lists exactly the procedures of the
\* registry that are not flagged internal, one entry each, in registry
\* order, each with its path and, when it has one, its description.
C19_AnnounceListsNonInternal ==
    [][ \A t \in Tasks : Handles(t) => ListsNonInternal(announced'.procedures, registry) ]_vars

\* A response that lists a procedure with its description and one without,
\* made while a procedure flagged internal by another package is registered.
C19_Witness ==
    /\ announced.type = "procedure-announce"
    /\ \E k \in DOMAIN announced.procedures : DOMAIN announced.procedures[k] = {"path"}
    /\ \E k \in DOMAIN announced.procedures :
          DOMAIN announced.procedures[k] = {"path", "description"}
    /\ \E p \in UserProcedures : p.internal /\ p.path \in Registered

\* C20: once connect() has built a Connection, no step changes its
\* remoteProcedures or its remotePeerId, and no step issues another discovery
\* call on its channel: not a registration or unregistration on the remote,
\* not a later call of the connection manager.
C20_DiscoveredOnce ==
    [][ \A ref \in Refs :
          clients[ref].built
          => /\ clients'[ref].remoteProcedures = clients[ref].remoteProcedures
             /\ clients'[ref].remotePeerId = clients[ref].remotePeerId
             /\ clients'[ref].discovery = clients[ref].discovery ]_vars

\* A Connection built from a response, closed since, whose remoteProcedures
\* are no longer what the remote would announce.
C20_Witness ==
    \E ref \in Refs :
        /\ clients[ref].built
        /\ clients[ref].discovery = "ok"
        /\ clients[ref].closed
        /\ clients[ref].remoteProcedures # discoveryAnnounceHandler(registry, now).procedures

\* ------------------------------------------------- failures during start()

\* In this step the bind that caller c's start() waits for fails.
BindFails(c) ==
    /\ peerTasks[c].op = "start"
    /\ peerTasks[c].pc = "awaitBind"
    /\ server'[peerTasks[c].adapter].state = "failed"

\* In this step nothing bound or recorded before is undone: the endpoint
\* list, the started flag and every other transport of the server are as
\* they were.
NoRollback(c) ==
    /\ peer' = peer
    /\ endpointObjects' = endpointObjects
    /\ \A a \in AdapterIds : a # peerTasks[c].adapter => server'[a] = server[a]

\* C29 as stated: when the bind of one transport fails during start(),
\* nothing bound before is rolled back, and when transports are configured
\* after the failing one start() goes on to start them.
C29_ContinuesAfterFailure ==
    [][ \A c \in PeerCallers :
          BindFails(c)
          => /\ NoRollback(c)
             /\ peerTasks[c].i < Len(peer.transports)
                => peerTasks'[c].pc = "awaitTransport" ]_vars

\* C29, amended: when the bind of one transport fails during start(),
\* nothing bound before is rolled back, and that start() goes no further: it
\* rejects or stays pending at the failing transport, with the peer not
\* marked started by it.
C29_StopsAtFailureWithoutRollback ==
    [][ \A c \in PeerCallers :
          BindFails(c)
          => /\ NoRollback(c)
             /\ peerTasks'[c].i = peerTasks[c].i
             /\ \/ peerTasks'[c].pc = "pending"
                \/ peerTasks'[c].pc = "done" /\ peerTasks'[c].result = "threw" ]_vars

\* A start() stopped by a failed bind at its second transport while the
\* first one is recorded as an endpoint.
C29_Witness ==
    \E c \in PeerCallers :
        /\ peerTasks[c].op = "start"
        /\ peerTasks[c].i = 2
        /\ peerTasks[c].pc = "pending" \/ peerTasks[c].result = "threw"
        /\ \E a \in AdapterIds : server[a] # NoAdapter /\ server[a].state = "failed"
        /\ getEndpoints # << >>

\* C30: no start() is left waiting on a promise that nothing will settle:
\* every start() in flight is at an await whose promise the runtime settles.
C30_StartNeverPendingForever ==
    \A c \in PeerCallers : ~(peerTasks[c].op = "start" /\ peerTasks[c].pc = "pending")

\* ------------------------------------------------- the catalog a peer serves

\* C21: the response the remote makes to a discovery call lists exactly the
\* catalog its server serves (the registry the peer was created with, which
\* is the ambient one only when none was given), internal procedures left
\* out; this is what the caller stores as remoteProcedures.
C21_AnnounceListsServedCatalog ==
    [][ \A t \in Tasks :
          Handles(t) => ListsNonInternal(announced'.procedures, Served) ]_vars

\* ---------------------------------------------------------- manifest.generate

\* The paths of the procedures of reg that are flagged internal.
InternalPaths(reg) == { reg[i].path : i \in DOMAIN reg \ NonInternal(reg) }

\* The last call of manifest.generate returned a result with a json manifest.
ReturnedJson(g) == g.called /\ ~g.threw /\ "json" \in DOMAIN g.result

\* C22: no listing names an internal procedure: getProcedureInfos() over the
\* registry does not, and the manifest that manifest.generate returns for a
\* call without a namespace filter does not.
C22_InternalNeverListed ==
    /\ \A k \in DOMAIN getProcedureInfos(registry) :
          getProcedureInfos(registry)[k].path \notin InternalPaths(registry)
    /\ (ReturnedJson(generated) /\ generated.input.namespace = None)
       => \A k \in DOMAIN generated.result.json.procedures :
             generated.result.json.procedures[k].path
                 \notin InternalPaths(generated.allProcedures)

\* In this step manifest.generate is called and settles.
Generates == generated' # generated

\* C23: a call of manifest.generate that repeats the input of the call
\* before it, on a registry equal to the one that call read, returns the same
\* procedures (in the json manifest and in the TypeScript interfaces); the
\* results differ at most in the generation timestamp.  No call changes the
\* registry.
C23_GenerateIdempotent ==
    [][ Generates
        => /\ registry' = registry
           /\ ( /\ ReturnedJson(generated) /\ ReturnedJson(generated')
                /\ generated'.repeats )
              => /\ generated'.result.json.procedures = generated.result.json.procedures
                 /\ generated'.result.json.version = generated.result.json.version
                 /\ DOMAIN generated'.result = DOMAIN generated.result
                 /\ "typescript" \in DOMAIN generated.result
                    => generated'.result.typescript.interfaces
                           = generated.result.typescript.interfaces ]_vars

\* A repeated call made after the clock moved, on a registry that other
\* packages have registered procedures on.
C23_Witness ==
    /\ ReturnedJson(generated)
    /\ generated.repeats
    /\ generated.result.json.generatedAt = MaxTime
    /\ Len(generated.allProcedures) > Len(procedures)
    /\ generated.input.namespace # None

\* namespace is a segment-wise prefix of path.
IsPrefix(namespace, path) ==
    /\ Len(namespace) <= Len(path)
    /\ SubSeq(path, 1, Len(namespace)) = namespace

\* The paths a list of procedures or of procedure infos names, in order.
PathsOf(list) == [k \in DOMAIN list |-> list[k].path]

\* C24: a call of manifest.generate with a non-empty namespace returns, and
\* its manifest lists exactly the procedures of the registry whose path has
\* the namespace as a segment-wise prefix, in the registry's order (none when
\* nothing matches; a path shorter than the namespace never matches).
C24_NamespaceIsStrictPrefixFilter ==
    ( /\ generated.called
      /\ generated.input.namespace # None
      /\ generated.input.namespace # Some(<< >>) )
    => /\ ReturnedJson(generated)
       /\ PathsOf(generated.result.json.procedures)
              = PathsOf(SelectSeq(generated.allProcedures,
                    LAMBDA proc : IsPrefix(generated.input.namespace[1], proc.path)))

\* The call with namespace ["git"] over a catalog that holds git.status and
\* git.add after procedures of other namespaces.
C24_Witness ==
    /\ ReturnedJson(generated)
    /\ generated.input.namespace = Some(<<"git">>)
    /\ Len(generated.allProcedures) > 2
    /\ PathsOf(generated.result.json.procedures) = << <<"git", "status">>, <<"git", "add">> >>

\* The formats a call asks for: input.formats, ["json"] when omitted.
Requested(g, format) ==
    LET formats == IF g.input.formats = None THEN <<"json">> ELSE g.input.formats[1]
    IN \E k \in DOMAIN formats : formats[k] = format

\* The files of the requested formats in dir, json first.
RequestedFiles(g, dir) ==
    (IF Requested(g, "json") THEN << <<dir, "procedures.json">> >> ELSE << >>)
    \o (IF Requested(g, "typescript") THEN << <<dir, "procedures.d.ts">> >> ELSE << >>)

\* The result g of a returned call has a field per requested format, and
\* when toDisk holds the call wrote the requested files and lists them, and
\* otherwise wrote nothing and has no filesWritten.
FormatsAndFiles(g, toDisk, before, after) ==
    LET expected == IF toDisk THEN RequestedFiles(g, g.input.outputDir) ELSE << >>
    IN /\ ("json" \in DOMAIN g.result) <=> Requested(g, "json")
       /\ ("typescript" \in DOMAIN g.result) <=> Requested(g, "typescript")
       /\ after = before \cup { expected[k] : k \in DOMAIN expected }
       /\ IF expected = << >>
          THEN "filesWritten" \notin DOMAIN g.result
          ELSE /\ "filesWritten" \in DOMAIN g.result
               /\ g.result.filesWritten = expected

C26_MkdirFailurePropagates ==
    /\ generated.mkdir = "failed" => (generated.threw /\ generated.error = "mkdir")
    /\ generated.mkdir = "exists" => generated.error # "mkdir"

\* ------------------------------------------------------------ server.create

\* In this step server.create returns its output.
CreateReturns == creating.pc = "awaitStart" /\ creating'.pc = "done" /\ ~creating'.threw

\* The registered procedures that have a handler.
WithHandler(reg) == { i \in DOMAIN reg : reg[i].handler }

\* C27: the procedureCount server.create returns is 0 when autoRegister is
\* false and otherwise, autoRegister being true or omitted, the number of
\* registered procedures that have a handler.
C27_OmittedAutoRegisterCountsAsTrue ==
    [][ CreateReturns
        => creating'.result.procedureCount =
               IF creating.input.autoRegister = "false"
               THEN 0
               ELSE Cardinality(WithHandler(registry)) ]_vars

\* ---------------------------------------------------------- watchProcedures

\* The paths a registry holds.
PathsIn(reg) == { reg[k].path : k \in DOMAIN reg }

\* The event a step makes: the procedure that entered or left the registry.
EventKind == IF Len(registry') > Len(registry) THEN "register" ELSE "unregister"
EventProcedure ==
    IF Len(registry') > Len(registry)
    THEN registry'[Len(registry')]
    ELSE CHOOSE proc \in { registry[k] : k \in DOMAIN registry } :
             proc.path \notin PathsIn(registry')

\* The call is tagged with the kind and the path of the event's procedure,
\* and carries the description exactly when the procedure has one.
TaggedWith(call, kind, proc) ==
    /\ call.event = kind
    /\ call.info.path = proc.path
    /\ ("description" \in DOMAIN call.info) <=> (proc.meta /\ proc.description # Undefined)
    /\ "description" \in DOMAIN call.info => call.info.description = proc.description

\* C28: a register or unregister event calls the callback of every
\* subscription that is in force exactly once, tagged with the event's kind
\* and path; a callback never subscribed or already unsubscribed is not
\* called, no step other than an event calls a callback, and a subscribe or
\* unsubscribe of one callback leaves every other subscription as it was.
C28_OneCallbackPerEventWhileSubscribed ==
    [][ \A w \in Watchers :
          /\ registry' = registry => watchers'[w].calls = watchers[w].calls
          /\ registry' # registry
             => IF watchers[w].state = "subscribed"
                THEN /\ Len(watchers'[w].calls) = Len(watchers[w].calls) + 1
                     /\ SubSeq(watchers'[w].calls, 1, Len(watchers[w].calls))
                            = watchers[w].calls
                     /\ TaggedWith(watchers'[w].calls[Len(watchers'[w].calls)],
                                   EventKind, EventProcedure)
                ELSE watchers'[w].calls = watchers[w].calls
          /\ watchers'[w].state # watchers[w].state
             => \A v \in Watchers \ {w} : watchers'[v] = watchers[v] ]_vars

\* One callback unsubscribed after one call while another, still subscribed,
\* has been called for a register and an unregister event since.
C28_Witness ==
    \E w, v \in Watchers :
        /\ watchers[w].state = "unsubscribed"
        /\ Len(watchers[w].calls) = 1
        /\ watchers[v].state = "subscribed"
        /\ Len(watchers[v].calls) = 2
        /\ watchers[v].calls[1].event = "register"
        /\ watchers[v].calls[2].event = "unregister"
        /\ watchers[v].calls[1] # watchers[w].calls[1]

\* ------------------------------------------------- overlapping peer calls

\* How many transports of the list have the type.
CountType(list, type) == Cardinality({ k \in DOMAIN list : list[k] = type })

\* How many transports of the type the server has bound or is binding.
BoundOfType(type) ==
    Cardinality({ a \in AdapterIds :
        server[a] # NoAdapter /\ server[a].type = type
        /\ server[a].state \in {"binding", "listening"} })

\* No bind has failed: no adapter is marked failed, and no start() threw or
\* hangs.
NoBindFailed ==
    /\ \A a \in AdapterIds : server[a] = NoAdapter \/ server[a].state # "failed"
    /\ \A c \in PeerCallers : peerTasks[c].result # "threw" /\ peerTasks[c].pc # "pending"

\* C33: as long as no bind has failed, however start() calls overlap, the
\* server has bound (or is binding) each configured transport at most once
\* and getEndpoints() has at most one endpoint per configured transport.
C33_OverlappingStartBindsOnce ==
    (peer.created /\ NoBindFailed)
    => /\ \A type \in {"http", "websocket"} :
             BoundOfType(type) <= CountType(peer.transports, type)
       /\ \A type \in TransportTypes :
             CountType([k \in DOMAIN getEndpoints |-> Deref(getEndpoints)[k].type], type)
                 <= CountType(peer.transports, type)

\* C34: when a stop() was called while a start() was binding and both calls
\* have completed, the peer is not started and getEndpoints() is empty.
C34_StopDuringStartNotLost ==
    ( /\ peerTasks[Owner].op = "start" /\ peerTasks[Owner].pc = "done"
      /\ peerTasks[Stopper].op = "stop" /\ peerTasks[Stopper].pc = "done" )
    => (~peer.started /\ getEndpoints = << >>)

\* C35: a peer never has more endpoints than configured transports.
C35_EndpointsAtMostTransports ==
    peer.created => Len(getEndpoints) <= Len(peer.transports)

\* ------------------------------------------------------- the active peers

\* In this step server.create settles: it returns or it throws.
CreateSettles == creating.pc = "awaitStart" /\ creating'.pc = "done"

\* C39: the active-peer registry changes only when a server.create whose
\* peer.start() completed without failure returns: it then gains that call's
\* serverId, the peer is started, and the endpoints of the output are the
\* peer's endpoints at that moment.  A server.create whose peer.start()
\* failed throws and leaves the registry as it was.
C39_ActivePeersAreStartedPeers ==
    [][ /\ getActivePeerIds' # getActivePeerIds
           => /\ CreateSettles
              /\ peerTasks[Owner].op = "start"
              /\ peerTasks[Owner].pc = "done"
              /\ peerTasks[Owner].result = "void"
              /\ peer.started
              /\ getActivePeerIds' = getActivePeerIds \cup {creating.serverId}
        /\ CreateSettles
           => IF peerTasks[Owner].result = "threw"
              THEN creating'.threw /\ getActivePeerIds' = getActivePeerIds
              ELSE /\ ~creating'.threw
                   /\ creating'.result.serverId \in getActivePeerIds'
                   /\ creating'.result.endpoints = Deref(getEndpoints)' ]_vars

\* A server.create that returned two endpoints and whose id is listed.
C39_Witness ==
    /\ creating.pc = "done"
    /\ ~creating.threw
    /\ creating.serverId \in getActivePeerIds
    /\ Len(creating.result.endpoints) = 2
    /\ creating.result.endpoints = Deref(getEndpoints)

\* ------------------------------------------------ TypeScript declarations

\* The last call of manifest.generate returned TypeScript declarations.
ReturnedTypeScript(g) == g.called /\ ~g.threw /\ "typescript" \in DOMAIN g.result

\* The position of the first procedure of the catalog in the namespace.
FirstOccurrence(catalog, namespace) ==
    CHOOSE i \in DOMAIN catalog :
        /\ catalog[i].path[1] = namespace
        /\ \A h \in DOMAIN catalog : catalog[h].path[1] = namespace => i <= h

\* The position in the catalog of the procedure with the path.
PositionOf(catalog, path) == CHOOSE i \in DOMAIN catalog : catalog[i].path = path

\* C32: the declarations generated for a catalog hold one contract per
\* distinct first path segment, distinctly named, in first-occurrence order;
\* every procedure is an entry of exactly one contract, that of its first
\* segment, with its path, the entries in catalog order; and the combined
\* RemoteProcedures contract has exactly one member per distinct first
\* segment, distinctly named and referring to that segment's contract.
C32_DeclarationsPartitionByNamespace ==
    ReturnedTypeScript(generated)
    => LET ts == generated.result.typescript
           catalog == filterByNamespace(generated.allProcedures, generated.input.namespace)
           segments == { catalog[i].path[1] : i \in DOMAIN catalog }
           entries == { <<k, j>> \in (DOMAIN ts.interfaces) \X (1..Len(catalog)) :
                          j \in DOMAIN ts.interfaces[k].procs }
       IN /\ Len(ts.interfaces) = Cardinality(segments)
          /\ Cardinality(entries) = Len(catalog)
          /\ \A i \in DOMAIN catalog :
                \E e \in entries :
                    /\ ts.interfaces[e[1]].procs[e[2]].path = catalog[i].path
                    /\ ts.interfaces[e[1]].namespace = catalog[i].path[1]
          /\ \A k, l \in DOMAIN ts.interfaces :
                k < l => /\ FirstOccurrence(catalog, ts.interfaces[k].namespace)
                               < FirstOccurrence(catalog, ts.interfaces[l].namespace)
                         /\ ts.interfaces[k].name # ts.interfaces[l].name
          /\ \A k \in DOMAIN ts.interfaces :
                \A j, h \in DOMAIN ts.interfaces[k].procs :
                    j < h => PositionOf(catalog, ts.interfaces[k].procs[j].path)
                                 < PositionOf(catalog, ts.interfaces[k].procs[h].path)
          /\ Len(ts.combined) = Cardinality(segments)
          /\ \A k \in DOMAIN ts.combined :
                /\ ts.combined[k].type = ts.interfaces[k].name
                /\ \A l \in DOMAIN ts.combined :
                      k # l => ts.combined[k].name # ts.combined[l].name

\* ------------------------------------------------------ teardown failures

\* C37: when client.close() fails during disconnect(id) (the client is not
\* closed when the call settles), the call raises the failure, returning
\* neither true nor false, and the registry is left as it was, so that id is
\* still listed if it was; and a disconnect(id) of an id the registry holds
\* calls close on that entry's client.
C37_CloseFailureRaisedEntryStays ==
    [][ \A t \in Tasks :
          /\ (tasks[t].op = "disconnect" /\ tasks[t].pc = "awaitClose"
                 /\ tasks'[t] # tasks[t] /\ ~ clients'[tasks[t].ref].closed)
              => /\ tasks'[t].pc = "done"
                 /\ tasks'[t].result = "threwClose"
                 /\ connections' = connections
                 /\ clients' = clients
          /\ (Calls(t, "disconnect") /\ tasks'[t].id \in getConnectionIds)
              => /\ tasks'[t].pc = "awaitClose"
                 /\ tasks'[t].ref = getConnection(tasks'[t].id) ]_vars

\* A disconnect(id) has raised a close failure, id is still listed with its
\* client open, and another disconnect(id) is attempting the close.
C37_Witness ==
    \E t, u \in Tasks :
        /\ t # u
        /\ tasks[t].op = "disconnect"
        /\ tasks[t].pc = "done"
        /\ tasks[t].result = "threwClose"
        /\ tasks[t].id \in getConnectionIds
        /\ ~ clients[getConnection(tasks[t].id)].closed
        /\ tasks[u].op = "disconnect"
        /\ tasks[u].pc = "awaitClose"
        /\ tasks[u].id = tasks[t].id
        /\ tasks[u].ref = getConnection(tasks[t].id)

\* C36: of two disconnect(id) calls for the same connection that overlap, at
\* most one calls client.close() and goes on to return true: no two calls
\* are at once inside the teardown (awaiting the close, or past the delete
\* and about to return true) of the same client.
C36_OverlappingDisconnectsCloseOnce ==
    \A t, u \in Tasks :
        (/\ t # u
         /\ tasks[t].op = "disconnect"
         /\ tasks[u].op = "disconnect"
         /\ tasks[t].pc \in {"awaitClose", "deleted"}
         /\ tasks[u].pc \in {"awaitClose", "deleted"})
            => tasks[t].ref # tasks[u].ref

\* ------------------------------------------- connection.disconnect()

\* C38: connection.disconnect() on a Connection that connect() returned acts
\* on the registry as disconnect(id) does: when it returns, id's entry is
\* out of the registry (getConnection(id) finds nothing, getConnectionIds()
\* does not list id) and no other entry has changed; and the disconnect(id)
\* the caller makes next returns false.
C38_MethodActsAsDisconnect ==
    [][ \A t \in Tasks :
          /\ (tasks[t].op = "connection.disconnect" /\ tasks[t].pc = "awaitClose"
                 /\ tasks'[t].pc = "done" /\ tasks'[t].result = "void")
              => /\ tasks[t].id \notin DOMAIN connections'
                 /\ DOMAIN connections' = (DOMAIN connections) \ {tasks[t].id}
                 /\ \A k \in DOMAIN connections' : connections'[k] = connections[k]
          /\ (tasks[t].op = "connection.disconnect" /\ tasks[t].pc = "done"
                 /\ tasks[t].result = "void"
                 /\ Calls(t, "disconnect") /\ tasks'[t].id = tasks[t].id)
              => (tasks'[t].pc = "done" /\ tasks'[t].result = "false") ]_vars

\* ------------------------------------------------- registry consistency

\* C40: every entry of the registry, under its key k, is a built Connection
\* whose id (and remote.id) is k; and the registry changes only in a step
\* where a connect() completes, adding one entry under its new id, or where a
\* teardown completes, removing the entry of the connection torn down.
C40_RegistryKeyedByOwnId ==
    [][ /\ \A k \in DOMAIN connections' :
              /\ clients'[connections'[k]].built
              /\ clients'[connections'[k]].id = k
        /\ connections' # connections
              => \E t \in Tasks :
                    \/ /\ ConnectSettles(t)
                       /\ tasks'[t].result = "conn"
                       /\ tasks[t].id \notin DOMAIN connections
                       /\ connections' = MapSet(connections, tasks[t].id, tasks[t].ref)
                    \/ /\ tasks[t].pc = "awaitClose"
                       /\ tasks'[t] # tasks[t]
                       /\ tasks[t].id \in DOMAIN connections
                       /\ connections[tasks[t].id] = tasks[t].ref
                       /\ connections' = MapDelete(connections, tasks[t].id) ]_vars

\* ------------------------------------------------- bounded discovery

\* C31: a connect() to a remote that never answers the discovery call does
\* not stay pending: the client whose discovery call it awaits has a timer,
\* the supplied timeout or a default, that will reject the call.
C31_DiscoveryCallBounded ==
    \A t \in Tasks :
        (tasks[t].op = "connect" /\ tasks[t].pc = "awaitDiscovery")
            => callTimeout(clients[tasks[t].ref].options) # None

====
